---- MODULE Spec2Model ----
(***************************************************************************)
(* Bill analysis pipeline of JustBill: the extraction cascade of           *)
(* POST /api/analyze (server/routes.ts), the per-tier item sanitizers      *)
(* (Mindee adapter, Gemini adapter, regex parser), the bill-type validator *)
(* and the price comparison (server/services/price-compare.ts).            *)
(*                                                                         *)
(* Strings are sequences of one-character strings, so that includes(),     *)
(* toLowerCase(), trim() and the regular expressions of the source are     *)
(* computed on the characters.  Currency amounts are whole rupees.         *)
(***************************************************************************)
EXTENDS Integers, Sequences, FiniteSets, Bags, TLC

\* ------------------------------------------------------------------------
\* Bounds of the model
\* ------------------------------------------------------------------------
MaxItems == 2        \* longest item list a backend answers with

\* ------------------------------------------------------------------------
\* Characters and string primitives (JavaScript String methods)
\* ------------------------------------------------------------------------
UpperLetters == <<"A","B","C","D","E","F","G","H","I","J","K","L","M",
                  "N","O","P","Q","R","S","T","U","V","W","X","Y","Z">>
LowerLetters == <<"a","b","c","d","e","f","g","h","i","j","k","l","m",
                  "n","o","p","q","r","s","t","u","v","w","x","y","z">>
Digits == {"0","1","2","3","4","5","6","7","8","9"}
UpperSet == {UpperLetters[i] : i \in 1..26}
LowerSet == {LowerLetters[i] : i \in 1..26}

Range(s) == {s[i] : i \in DOMAIN s}

\* a sequence given element by element, as a tuple
Array(f) == SubSeq(f, 1, Len(f))

LowerOf == [c \in UpperSet |-> LowerLetters[CHOOSE i \in 1..26 : UpperLetters[i] = c]]
UpperOf == [c \in LowerSet |-> UpperLetters[CHOOSE i \in 1..26 : LowerLetters[i] = c]]

LowerChar(c) == IF c \in UpperSet THEN LowerOf[c] ELSE c

UpperChar(c) == IF c \in LowerSet THEN UpperOf[c] ELSE c

toLowerCase(s) == Array([i \in 1..Len(s) |-> LowerChar(s[i])])

toUpperCase(s) == Array([i \in 1..Len(s) |-> UpperChar(s[i])])

RECURSIVE TrimLeft(_)
TrimLeft(s) == IF s # <<>> /\ Head(s) = " " THEN TrimLeft(Tail(s)) ELSE s

RECURSIVE TrimRight(_)
TrimRight(s) ==
    IF s # <<>> /\ s[Len(s)] = " " THEN TrimRight(SubSeq(s, 1, Len(s) - 1)) ELSE s

trim(s) == TrimRight(TrimLeft(s))

\* s.includes(k)
includes(s, k) ==
    \E i \in 0..(Len(s) - Len(k)) : \A j \in 1..Len(k) : s[i + j] = k[j]

\* array.some(kw => s.includes(kw))
includesAny(s, kws) == \E j \in DOMAIN kws : includes(s, kws[j])

\* a run of at least n characters of class cls somewhere in s
HasRun(s, cls, n) ==
    \E i \in 0..(Len(s) - n) : \A j \in 1..n : s[i + j] \in cls

\* ------------------------------------------------------------------------
\* Mindee adapter: filtering rules (mindee parser)
\* ------------------------------------------------------------------------

GARBAGE_KEYWORDS ==
    << <<"i","n","v","o","i","c","e">>, <<"b","i","l","l"," ","n","o">>,
       <<"r","e","c","e","i","p","t">>, <<"v","o","u","c","h","e","r">>,
       <<"r","e","f"," ","n","o">>, <<"r","e","f","e","r","e","n","c","e">>, <<"d","a","t","e">>,
       <<"t","i","m","e">>, <<"d","a","t","e","d">>, <<"c","o","n","t","a","c","t">>,
       <<"p","h","o","n","e">>, <<"m","o","b","i","l","e">>, <<"t","e","l">>, <<"f","a","x">>,
       <<"e","m","a","i","l">>, <<"w","e","b","s","i","t","e">>, <<"w","w","w">>,
       <<"g","s","t","i","n">>, <<"g","s","t"," ","n","o">>, <<"p","a","n">>, <<"t","i","n">>,
       <<"c","i","n">>, <<"r","e","g","i","s","t","r","a","t","i","o","n">>,
       <<"a","d","d","r","e","s","s">>, <<"c","i","t","y">>, <<"s","t","a","t","e">>,
       <<"p","i","n","c","o","d","e">>, <<"z","i","p">>, <<"c","o","u","n","t","r","y">>,
       <<"t","o","t","a","l">>, <<"s","u","b","t","o","t","a","l">>,
       <<"g","r","a","n","d"," ","t","o","t","a","l">>,
       <<"n","e","t"," ","a","m","o","u","n","t">>, <<"g","r","o","s","s">>, <<"t","a","x">>,
       <<"c","g","s","t">>, <<"s","g","s","t">>, <<"i","g","s","t">>, <<"v","a","t">>,
       <<"c","e","s","s">>, <<"d","i","s","c","o","u","n","t">>, <<"r","e","b","a","t","e">>,
       <<"a","d","j","u","s","t","m","e","n","t">>, <<"p","a","y","m","e","n","t">>,
       <<"p","a","i","d">>, <<"b","a","l","a","n","c","e">>, <<"d","u","e">>, <<"c","a","s","h">>,
       <<"c","a","r","d">>, <<"u","p","i">>, <<"p","a","g","e">>, <<"s","r"," ","n","o">>,
       <<"s","l"," ","n","o">>, <<"s","e","r","i","a","l">>,
       <<"p","a","r","t","i","c","u","l","a","r","s">>,
       <<"d","e","s","c","r","i","p","t","i","o","n">>, <<"q","t","y">>,
       <<"q","u","a","n","t","i","t","y">>, <<"r","a","t","e">>, <<"a","m","o","u","n","t">>,
       <<"p","r","i","c","e">>, <<"u","n","i","t">>, <<"h","o","s","p","i","t","a","l">>,
       <<"c","l","i","n","i","c">>, <<"n","u","r","s","i","n","g">>,
       <<"h","e","a","l","t","h","c","a","r","e">>,
       <<"m","e","d","i","c","a","l"," ","c","e","n","t","r","e">>,
       <<"p","a","t","i","e","n","t">>, <<"d","o","c","t","o","r">>, <<"d","r",".">>,
       <<"a","d","m","i","s","s","i","o","n">>, <<"d","i","s","c","h","a","r","g","e">>,
       <<"u","h","i","d">>, <<"i","p","d">>, <<"o","p","d">>, <<"m","r","n">>,
       <<"p","a","t","i","e","n","t"," ","i","d">>, <<"t","h","a","n","k"," ","y","o","u">>,
       <<"t","e","r","m","s">>, <<"c","o","n","d","i","t","i","o","n">>,
       <<"s","i","g","n","a","t","u","r","e">>, <<"a","u","t","h","o","r","i","z","e","d">> >>

MEDICAL_KEYWORDS ==
    << <<"t","a","b","l","e","t">>, <<"t","a","b">>, <<"c","a","p","s","u","l","e">>,
       <<"c","a","p">>, <<"s","y","r","u","p">>, <<"s","u","s","p","e","n","s","i","o","n">>,
       <<"i","n","j","e","c","t","i","o","n">>, <<"i","n","j">>,
       <<"o","i","n","t","m","e","n","t">>, <<"c","r","e","a","m">>, <<"g","e","l">>,
       <<"d","r","o","p","s">>, <<"i","n","h","a","l","e","r">>, <<"s","p","r","a","y">>,
       <<"p","o","w","d","e","r">>, <<"s","a","c","h","e","t">>, <<"p","a","t","c","h">>,
       <<"t","e","s","t">>, <<"b","l","o","o","d">>, <<"u","r","i","n","e">>,
       <<"x","-","r","a","y">>, <<"x","r","a","y">>, <<"s","c","a","n">>, <<"m","r","i">>,
       <<"c","t"," ","s","c","a","n">>, <<"u","l","t","r","a","s","o","u","n","d">>,
       <<"u","s","g">>, <<"e","c","g">>, <<"e","k","g">>, <<"e","c","h","o">>,
       <<"p","a","t","h","o","l","o","g","y">>, <<"h","e","m","o","g","l","o","b","i","n">>,
       <<"g","l","u","c","o","s","e">>, <<"l","i","p","i","d">>, <<"t","h","y","r","o","i","d">>,
       <<"l","i","v","e","r">>, <<"k","i","d","n","e","y">>, <<"d","r","e","s","s","i","n","g">>,
       <<"b","a","n","d","a","g","e">>, <<"s","u","t","u","r","e">>,
       <<"c","a","t","h","e","t","e","r">>, <<"c","a","n","n","u","l","a">>,
       <<"o","x","y","g","e","n">>, <<"n","e","b","u","l","i","z","a","t","i","o","n">>,
       <<"p","h","y","s","i","o","t","h","e","r","a","p","y">>,
       <<"r","o","o","m"," ","c","h","a","r","g","e">>,
       <<"b","e","d"," ","c","h","a","r","g","e">>, <<"i","c","u">>, <<"w","a","r","d">>,
       <<"p","r","i","v","a","t","e"," ","r","o","o","m">>,
       <<"n","u","r","s","i","n","g"," ","c","h","a","r","g","e">>, <<"d","i","e","t">>,
       <<"c","o","n","s","u","l","t","a","t","i","o","n">> >>

\* the literal members of MEDICINE_PATTERNS; /pan\s*d/ is PanD below
MEDICINE_WORDS ==
    << <<"p","a","r","a","c","e","t","a","m","o","l">>,
       <<"a","m","o","x","i","c","i","l","l","i","n">>,
       <<"a","z","i","t","h","r","o","m","y","c","i","n">>,
       <<"c","i","p","r","o","f","l","o","x","a","c","i","n">>,
       <<"m","e","t","f","o","r","m","i","n">>, <<"o","m","e","p","r","a","z","o","l","e">>,
       <<"p","a","n","t","o","p","r","a","z","o","l","e">>,
       <<"r","a","n","i","t","i","d","i","n","e">>,
       <<"a","t","o","r","v","a","s","t","a","t","i","n">>, <<"a","s","p","i","r","i","n">>,
       <<"i","b","u","p","r","o","f","e","n">>, <<"d","i","c","l","o","f","e","n","a","c">>,
       <<"c","e","f","i","x","i","m","e">>, <<"o","f","l","o","x","a","c","i","n">>,
       <<"l","e","v","o","f","l","o","x","a","c","i","n">>,
       <<"d","o","x","y","c","y","c","l","i","n","e">>,
       <<"m","e","t","r","o","n","i","d","a","z","o","l","e">>,
       <<"f","l","u","c","o","n","a","z","o","l","e">>, <<"a","c","y","c","l","o","v","i","r">>,
       <<"a","m","l","o","d","i","p","i","n","e">>, <<"a","t","e","n","o","l","o","l">>,
       <<"l","o","s","a","r","t","a","n">>, <<"t","e","l","m","i","s","a","r","t","a","n">>,
       <<"i","n","s","u","l","i","n">>, <<"g","l","i","m","e","p","i","r","i","d","e">>,
       <<"s","i","t","a","g","l","i","p","t","i","n">>,
       <<"c","e","t","i","r","i","z","i","n","e">>, <<"l","o","r","a","t","a","d","i","n","e">>,
       <<"m","o","n","t","e","l","u","k","a","s","t">>,
       <<"p","r","e","d","n","i","s","o","l","o","n","e">>,
       <<"d","e","x","a","m","e","t","h","a","s","o","n","e">>,
       <<"h","y","d","r","o","c","o","r","t","i","s","o","n","e">>,
       <<"s","a","l","b","u","t","a","m","o","l">>, <<"b","u","d","e","s","o","n","i","d","e">>,
       <<"f","o","r","m","o","t","e","r","o","l">>,
       <<"m","u","l","t","i","v","i","t","a","m","i","n">>, <<"v","i","t","a","m","i","n">>,
       <<"c","a","l","c","i","u","m">>, <<"i","r","o","n">>, <<"f","o","l","i","c">>,
       <<"s","a","l","i","n","e">>, <<"d","e","x","t","r","o","s","e">>,
       <<"r","i","n","g","e","r">>, <<"c","r","o","c","i","n">>, <<"d","o","l","o">>,
       <<"c","o","m","b","i","f","l","a","m">>, <<"v","i","c","k","s">>, <<"z","i","f","i">>,
       <<"m","o","n","o","c","e","f">>, <<"p","a","n","t","o","c","i","d">>,
       <<"r","a","n","t","a","c">>, <<"g","e","l","u","s","i","l">> >>
\* /pan\s*d/ : "pan", any run of white space, "d"
PanD(s) ==
    \E i \in 0..(Len(s) - 4) :
        /\ SubSeq(s, i + 1, i + 3) = <<"p","a","n">>
        /\ \E j \in (i + 4)..Len(s) :
              /\ s[j] = "d"
              /\ \A k \in (i + 4)..(j - 1) : s[k] = " "

\* MEDICINE_PATTERNS.some(pat => pat.test(s)), every pattern carrying /i
MatchesMedicinePattern(s) ==
    LET l == toLowerCase(s) IN includesAny(l, MEDICINE_WORDS) \/ PanD(l)

\* /\d+\s*(u1|u2|...)/i : a digit, any run of white space, a unit word
DosagePattern(s, units) ==
    LET l == toLowerCase(s) IN
    \E i \in 1..Len(l) :
        /\ l[i] \in Digits
        /\ \E j \in (i + 1)..Len(l) :
              /\ \A k \in (i + 1)..(j - 1) : l[k] = " "
              /\ \E u \in DOMAIN units :
                    /\ j + Len(units[u]) - 1 <= Len(l)
                    /\ SubSeq(l, j, j + Len(units[u]) - 1) = units[u]

\* /^[...]+$/ : a non-empty string made of the characters of cls only
OnlyChars(s, cls) == s # <<>> /\ \A i \in DOMAIN s : s[i] \in cls

HIGH_PRICE == 100000
SUSPICIOUS_PRICE == 50000
TOTAL_TOLERANCE == 10

Abs(x) == IF x < 0 THEN -x ELSE x

isGarbageItem(name, price, totalBillAmount) ==
    LET lowerName == trim(toLowerCase(name))
        isClearlyMedical == includesAny(lowerName, MEDICAL_KEYWORDS)
                               \/ MatchesMedicinePattern(lowerName)
    IN  IF Len(lowerName) < 3 THEN TRUE
        ELSE IF includesAny(lowerName, GARBAGE_KEYWORDS) THEN TRUE
        ELSE IF price > 0 /\ Abs(price - totalBillAmount) < TOTAL_TOLERANCE THEN TRUE
        ELSE IF price > HIGH_PRICE /\ ~isClearlyMedical THEN TRUE
        ELSE IF OnlyChars(name, Digits \cup {" ", "-", ".", ",", "(", ")"}) THEN TRUE
        ELSE IF /\ Len(lowerName) <= 4
                /\ ~includesAny(lowerName, << <<"m","g">>, <<"m","l">>, <<"m","c","g">>, <<"i","u">> >>)
                /\ ~includesAny(lowerName, MEDICAL_KEYWORDS) THEN TRUE
        ELSE FALSE

isMedicalItem(name) ==
    \/ DosagePattern(name, << <<"m","g">>, <<"m","l">>, <<"m","c","g">>, <<"i","u">>, <<"g","m">>, <<"k","g">> >>)
    \/ includesAny(toLowerCase(name), MEDICAL_KEYWORDS)
    \/ MatchesMedicinePattern(name)

Cat_Medicine == <<"M","e","d","i","c","i","n","e">>
Cat_Test == <<"T","e","s","t">>
Cat_Room == <<"R","o","o","m">>
Cat_Consultation == <<"C","o","n","s","u","l","t","a","t","i","o","n">>
Cat_Nursing == <<"N","u","r","s","i","n","g">>
Cat_Consumable == <<"C","o","n","s","u","m","a","b","l","e">>
Cat_Other == <<"O","t","h","e","r">>

categorizeItem(name) ==
    LET lowerName == toLowerCase(name) IN
    IF \/ includesAny(lowerName, << <<"t","a","b","l","e","t">>, <<"t","a","b">>, <<"c","a","p","s","u","l","e">>, <<"c","a","p">>, <<"s","y","r","u","p">>, <<"i","n","j","e","c","t","i","o","n">>, <<"i","n","j">>, <<"o","i","n","t","m","e","n","t">>, <<"c","r","e","a","m">>, <<"d","r","o","p","s">> >>)
       \/ DosagePattern(lowerName, << <<"m","g">>, <<"m","l">>, <<"m","c","g">> >>)
       \/ MatchesMedicinePattern(lowerName)
    THEN Cat_Medicine
    ELSE IF includesAny(lowerName, << <<"t","e","s","t">>, <<"b","l","o","o","d">>, <<"x","-","r","a","y">>, <<"x","r","a","y">>, <<"s","c","a","n">>, <<"m","r","i">>, <<"c","t">>, <<"u","l","t","r","a","s","o","u","n","d">>, <<"u","s","g">>, <<"e","c","g">>, <<"p","a","t","h","o","l","o","g","y">>, <<"h","e","m","o","g","l","o","b","i","n">>, <<"g","l","u","c","o","s","e">> >>)
    THEN Cat_Test
    ELSE IF includesAny(lowerName, << <<"r","o","o","m">>, <<"b","e","d">>, <<"i","c","u">>, <<"w","a","r","d">>, <<"p","r","i","v","a","t","e">> >>)
    THEN Cat_Room
    ELSE IF includesAny(lowerName, << <<"c","o","n","s","u","l","t","a","t","i","o","n">>, <<"c","o","n","s","u","l","t">>, <<"d","o","c","t","o","r">>, <<"p","h","y","s","i","c","i","a","n">>, <<"v","i","s","i","t">> >>)
    THEN Cat_Consultation
    ELSE IF includesAny(lowerName, << <<"n","u","r","s","i","n","g">>, <<"n","u","r","s","e">>, <<"c","a","r","e">> >>)
    THEN Cat_Nursing
    ELSE IF includesAny(lowerName, << <<"d","r","e","s","s","i","n","g">>, <<"b","a","n","d","a","g","e">>, <<"s","y","r","i","n","g","e">>, <<"g","l","o","v","e">>, <<"m","a","s","k">>, <<"g","a","u","z","e">>, <<"c","o","t","t","o","n">> >>)
    THEN Cat_Consumable
    ELSE Cat_Other

MindeeKeeps(item, totalBillAmount) ==
    LET name == item.itemName
        price == item.totalBilled
    IN  /\ ~isGarbageItem(name, price, totalBillAmount)
        /\ ~(~isMedicalItem(name) /\ price > SUSPICIOUS_PRICE)

cleanParsedItems(items, totalBillAmount) ==
    LET keep(item) == MindeeKeeps(item, totalBillAmount)
        kept == SelectSeq(items, keep)
    IN  Array([i \in 1..Len(kept) |->
                  [kept[i] EXCEPT !.category = categorizeItem(kept[i].itemName)]])

metadataKeywords ==
    << <<"i","n","v","o","i","c","e">>, <<"b","i","l","l"," ","n","o">>,
       <<"b","i","l","l"," ","n","u","m","b","e","r">>, <<"r","e","c","e","i","p","t">>,
       <<"g","s","t">>, <<"g","s","t","i","n">>, <<"t","a","x"," ","i","d">>, <<"p","a","n">>,
       <<"p","h","o","n","e">>, <<"m","o","b","i","l","e">>, <<"t","e","l">>,
       <<"c","o","n","t","a","c","t">>, <<"e","m","a","i","l">>, <<"w","e","b","s","i","t","e">>,
       <<"w","w","w">>, <<"a","d","d","r","e","s","s">>, <<"s","t","r","e","e","t">>,
       <<"c","i","t","y">>, <<"p","i","n","c","o","d","e">>, <<"p","i","n"," ","c","o","d","e">>,
       <<"p","a","t","i","e","n","t"," ","i","d">>, <<"p","a","t","i","e","n","t"," ","n","o">>,
       <<"u","h","i","d">>, <<"s","u","b","t","o","t","a","l">>,
       <<"s","u","b","-","t","o","t","a","l">>, <<"s","u","b"," ","t","o","t","a","l">>,
       <<"g","r","a","n","d"," ","t","o","t","a","l">>,
       <<"n","e","t"," ","a","m","o","u","n","t">>, <<"b","a","l","a","n","c","e">>,
       <<"a","m","o","u","n","t"," ","p","a","i","d">>, <<"p","a","i","d"," ","b","y">>,
       <<"p","a","y","m","e","n","t"," ","m","o","d","e">>, <<"c","a","s","h">>,
       <<"c","a","r","d">>, <<"u","p","i">>, <<"o","n","l","i","n","e">>, <<"c","g","s","t">>,
       <<"s","g","s","t">>, <<"i","g","s","t">>, <<"t","a","x"," ","a","m","o","u","n","t">>,
       <<"d","i","s","c","o","u","n","t"," ","t","o","t","a","l">>,
       <<"t","o","t","a","l"," ","d","i","s","c","o","u","n","t">>,
       <<"s","i","g","n","a","t","u","r","e">>, <<"a","u","t","h","o","r","i","z","e","d">>,
       <<"t","e","r","m","s">>, <<"t","h","a","n","k"," ","y","o","u">>,
       <<"v","i","s","i","t"," ","a","g","a","i","n">> >>
\* ------------------------------------------------------------------------
\* Gemini adapter: validateAndFixBill (AI bill parser)
\* ------------------------------------------------------------------------
Unknown_Item == <<"U","n","k","n","o","w","n"," ","I","t","e","m">>
Unknown_Hospital == <<"U","n","k","n","o","w","n"," ","H","o","s","p","i","t","a","l">>

\* Positions at which digit runs and optional separators of the phone
\* pattern /\d{3}[-\s]?\d{3}[-\s]?\d{4}/ can end.
DigitsAt(s, i, n) == i + n - 1 <= Len(s) /\ \A j \in i..(i + n - 1) : s[j] \in Digits

AfterOptSep(s, i) == {i} \cup (IF i <= Len(s) /\ s[i] \in {"-", " "} THEN {i + 1} ELSE {})

PhonePattern(s) ==
    \/ HasRun(s, Digits, 10)
    \/ \E i \in 1..Len(s) :
          /\ DigitsAt(s, i, 3)
          /\ \E j \in AfterOptSep(s, i + 3) :
                /\ DigitsAt(s, j, 3)
                /\ \E k \in AfterOptSep(s, j + 3) : DigitsAt(s, k, 4)

\* /\d{2}[A-Z]{5}\d{4}[A-Z]\d[A-Z\d]/
GSTPattern(s) ==
    \E i \in 0..(Len(s) - 14) :
        /\ \A j \in 1..2 : s[i + j] \in Digits
        /\ \A j \in 3..7 : s[i + j] \in UpperSet
        /\ \A j \in 8..11 : s[i + j] \in Digits
        /\ s[i + 12] \in UpperSet
        /\ s[i + 13] \in Digits
        /\ s[i + 14] \in UpperSet \cup Digits

\* a || b on strings: the empty string is falsy
OrStr(a, b) == IF a # <<>> THEN a ELSE b

\* a || b on numbers: 0 is falsy (a missing field is modelled as 0)
OrNum(a, b) == IF a # 0 THEN a ELSE b

FixItem(item) ==
    [ itemName    |-> OrStr(item.itemName, Unknown_Item),
      category    |-> OrStr(item.category, Cat_Other),
      quantity    |-> OrNum(item.quantity, 1),
      unitPrice   |-> OrNum(item.unitPrice, OrNum(item.totalBilled, 0)),
      totalBilled |-> OrNum(item.totalBilled, OrNum(item.unitPrice, 0)) ]

\* the filter without its metadata-keyword rule
GeminiKeeps_NoKeywords(item) ==
    LET name == trim(toLowerCase(item.itemName)) IN
    IF Len(name) < 3 THEN FALSE
    ELSE IF OnlyChars(name, Digits \cup {" ", "-", "(", ")"}) THEN FALSE
    ELSE IF PhonePattern(name) THEN FALSE
    ELSE IF GSTPattern(toUpperCase(name)) THEN FALSE
    ELSE IF item.unitPrice > HIGH_PRICE THEN FALSE
    ELSE IF item.unitPrice <= 0 /\ ~includes(name, <<"d","i","s","c","o","u","n","t">>) THEN FALSE
    ELSE TRUE

GeminiKeeps(item) ==
    LET name == trim(toLowerCase(item.itemName)) IN
    IF Len(name) < 3 THEN FALSE
    ELSE IF includesAny(name, metadataKeywords) THEN FALSE
    ELSE IF OnlyChars(name, Digits \cup {" ", "-", "(", ")"}) THEN FALSE
    ELSE IF PhonePattern(name) THEN FALSE
    ELSE IF GSTPattern(toUpperCase(name)) THEN FALSE
    ELSE IF item.unitPrice > HIGH_PRICE THEN FALSE
    ELSE IF item.unitPrice <= 0 /\ ~includes(name, <<"d","i","s","c","o","u","n","t">>) THEN FALSE
    ELSE TRUE

RECURSIVE SumTotalBilled(_)
SumTotalBilled(items) ==
    IF items = <<>> THEN 0 ELSE Head(items).totalBilled + SumTotalBilled(Tail(items))

\* parsed: the JSON object of the model's answer; a totalAmount or a
\* confidence of -1 stands for one that is not a number, billDate is
\* "missing", or "valid" / "invalid" as new Date() can or cannot parse it.
validateAndFixBill(parsed) ==
    LET fixed == Array([i \in 1..Len(parsed.items) |-> FixItem(parsed.items[i])])
    IN  [ hospitalName |-> OrStr(parsed.hospitalName, Unknown_Hospital),
          billDate     |-> IF parsed.billDate = "missing" THEN "valid" ELSE parsed.billDate,
          totalAmount  |-> IF parsed.totalAmount < 0 THEN SumTotalBilled(parsed.items)
                           ELSE parsed.totalAmount,
          confidence   |-> IF parsed.confidence < 0 THEN 85 ELSE parsed.confidence,
          items        |-> SelectSeq(fixed, GeminiKeeps) ]

\* CATEGORY_KEYWORDS, in the order of its entries: <<category, keywords>>
CATEGORY_KEYWORDS ==
    << << <<"M","e","d","i","c","i","n","e">>,
          << <<"p","h","a","r","m","a","c","y">>, <<"m","e","d","i","c","i","n","e">>, <<"d","r","u","g">>, <<"t","a","b","l","e","t">>, <<"t","a","b">>, <<"c","a","p","s","u","l","e">>, <<"c","a","p">>, <<"i","n","j","e","c","t","i","o","n">>, <<"i","n","j">>, <<"s","y","r","u","p">>, <<"d","r","o","p","s">>, <<"o","i","n","t","m","e","n","t">>, <<"g","e","l">>, <<"c","r","e","a","m">>, <<"s","a","l","i","n","e">>, <<"d","e","x","t","r","o","s","e">>, <<"r","i","n","g","e","r">>, <<"p","a","r","a","c","e","t","a","m","o","l">>, <<"a","m","o","x","i","c","i","l","l","i","n">>, <<"o","m","e","p","r","a","z","o","l","e">> >> >>,
       << <<"T","e","s","t">>,
          << <<"l","a","b","o","r","a","t","o","r","y">>, <<"l","a","b">>, <<"t","e","s","t">>, <<"i","n","v","e","s","t","i","g","a","t","i","o","n">>, <<"p","a","t","h","o","l","o","g","y">>, <<"r","a","d","i","o","l","o","g","y">>, <<"x","-","r","a","y">>, <<"x","r","a","y">>, <<"c","t"," ","s","c","a","n">>, <<"m","r","i">>, <<"u","l","t","r","a","s","o","u","n","d">>, <<"u","s","g">>, <<"e","c","h","o">>, <<"e","c","g">>, <<"e","k","g">>, <<"b","l","o","o","d">>, <<"c","b","c">>, <<"l","i","p","i","d">>, <<"l","i","v","e","r">>, <<"k","i","d","n","e","y">>, <<"t","h","y","r","o","i","d">> >> >>,
       << <<"R","o","o","m">>,
          << <<"r","o","o","m">>, <<"b","e","d">>, <<"w","a","r","d">>, <<"i","c","u">>, <<"n","i","c","u">>, <<"p","i","c","u">>, <<"g","e","n","e","r","a","l"," ","w","a","r","d">>, <<"s","e","m","i","-","p","r","i","v","a","t","e">>, <<"p","r","i","v","a","t","e">>, <<"d","e","l","u","x","e">>, <<"s","u","i","t","e">> >> >>,
       << <<"C","o","n","s","u","l","t","a","t","i","o","n">>,
          << <<"c","o","n","s","u","l","t","a","t","i","o","n">>, <<"c","o","n","s","u","l","t">>, <<"v","i","s","i","t">>, <<"o","p","d">>, <<"d","o","c","t","o","r"," ","f","e","e">>, <<"p","h","y","s","i","c","i","a","n">>, <<"s","p","e","c","i","a","l","i","s","t">> >> >>,
       << <<"N","u","r","s","i","n","g">>,
          << <<"n","u","r","s","i","n","g">>, <<"n","u","r","s","e">>, <<"a","t","t","e","n","d","a","n","t">> >> >>,
       << <<"S","u","r","g","e","r","y">>,
          << <<"s","u","r","g","e","r","y">>, <<"o","p","e","r","a","t","i","o","n">>, <<"o","t"," ","c","h","a","r","g","e","s">>, <<"t","h","e","a","t","r","e">>, <<"a","n","e","s","t","h","e","s","i","a">>, <<"a","n","a","e","s","t","h","e","s","i","a">>, <<"p","r","o","c","e","d","u","r","e">> >> >>,
       << <<"C","o","n","s","u","m","a","b","l","e">>,
          << <<"c","o","n","s","u","m","a","b","l","e">>, <<"d","i","s","p","o","s","a","b","l","e">>, <<"s","y","r","i","n","g","e">>, <<"c","a","n","n","u","l","a">>, <<"c","a","t","h","e","t","e","r">>, <<"g","l","o","v","e","s">>, <<"m","a","s","k">>, <<"g","o","w","n">>, <<"c","o","t","t","o","n">>, <<"b","a","n","d","a","g","e">>, <<"d","r","e","s","s","i","n","g">>, <<"i","v"," ","c","a","n","n","u","l","a">> >> >>,
       << <<"E","q","u","i","p","m","e","n","t">>,
          << <<"e","q","u","i","p","m","e","n","t">>, <<"v","e","n","t","i","l","a","t","o","r">>, <<"m","o","n","i","t","o","r">>, <<"o","x","y","g","e","n">>, <<"n","e","b","u","l","i","z","e","r">> >> >> >>

CATEGORY_HEADERS ==
    << <<"p","h","a","r","m","a","c","y">>, <<"l","a","b","o","r","a","t","o","r","y">>,
       <<"r","o","o","m"," ","c","h","a","r","g","e","s">>,
       <<"c","o","n","s","u","l","t","a","t","i","o","n">>, <<"n","u","r","s","i","n","g">>,
       <<"c","o","n","s","u","m","a","b","l","e","s">>, <<"e","q","u","i","p","m","e","n","t">>,
       <<"m","e","d","i","c","i","n","e","s">> >>

\* skipPatterns anchored at the start of the line (/^total/i ...)
SKIP_PREFIXES ==
    << <<"t","o","t","a","l">>, <<"n","e","t">>, <<"g","r","o","s","s">>,
       <<"d","i","s","c","o","u","n","t">>, <<"c","g","s","t">>, <<"s","g","s","t">>,
       <<"i","g","s","t">>, <<"p","a","y","m","e","n","t">>, <<"r","e","c","e","i","p","t">>,
       <<"p","h","o","n","e">>, <<"a","d","d","r","e","s","s">>, <<"g","s","t","i","n">>,
       <<"p","a","t","i","e","n","t">>, <<"n","a","m","e">>, <<"d","a","t","e">>,
       <<"b","i","l","l">>, <<"s","u","b","t","o","t","a","l">>, <<"p","a","y","a","b","l","e">>,
       <<"i","n","v","o","i","c","e">>, <<"g","s","t">> >>

\* skipPatterns that are plain words matched anywhere in the line
SKIP_WORDS ==
    << <<"h","o","u","s","e"," ","n","o">>, <<"b","l","o","c","k">>, <<"s","e","c","t","o","r">>,
       <<"s","t","r","e","e","t">>, <<"d","e","l","h","i">>, <<"m","u","m","b","a","i">>,
       <<"b","a","n","g","a","l","o","r","e">>, <<"k","o","l","k","a","t","a">>,
       <<"c","h","e","n","n","a","i">>, <<"h","y","d","e","r","a","b","a","d">>,
       <<"i","n","d","i","a">>, <<"p","i","n","c","o","d","e">>, <<"m","a","l","e">>,
       <<"f","e","m","a","l","e">>, <<"g","e","n","d","e","r">>, <<"a","g","e">>, <<"d","o","b">>,
       <<"b","i","r","t","h">>, <<"a","a","d","h","a","r">>, <<"u","i","d">>,
       <<"e","m","a","i","l">>, <<"p","h","o","n","e">>, <<"m","o","b","i","l","e">>,
       <<"t","e","l">>, <<"f","a","x">>, <<"a","d","m","i","t">>,
       <<"d","i","s","c","h","a","r","g","e">>, <<"v","i","s","i","t">>,
       <<"d","o","c","t","o","r">>, <<"p","h","y","s","i","c","i","a","n">>,
       <<"s","u","r","g","e","o","n">>, <<"r","e","m","a","r","k","s">>, <<"n","o","t","e","s">>,
       <<"s","i","g","n","a","t","u","r","e">>, <<"t","e","r","m","s">>,
       <<"c","o","n","d","i","t","i","o","n","s">>, <<"p","o","l","i","c","y">> >>

EXPENSIVE_CONTEXT ==
    << <<"s","u","r","g","e","r","y">>, <<"o","p","e","r","a","t","i","o","n">>,
       <<"t","r","a","n","s","p","l","a","n","t">>, <<"i","m","p","l","a","n","t">>,
       <<"i","c","u">>, <<"v","e","n","t","i","l","a","t","o","r">>,
       <<"d","i","a","l","y","s","i","s">> >>

URL_MARKS ==
    << <<"w","w","w",".">>, <<"h","t","t","p">>, <<".","c","o","m">>, <<"@">> >>
\* ------------------------------------------------------------------------
\* Regex parser (parser service).  An OCR text is the sequence of its
\* non-empty trimmed lines; a line is a record
\*   text : the characters of the line
\*   nums : its numeric tokens in order (the matches of amountPattern)
\*   qty  : the number captured by the quantity pattern, 0 when none
\*   mrp  : the number captured by the MRP pattern, 0 when none
\*   name : what the chain of replace() calls of parseLineItem leaves of
\*          the line before the length checks
\* The tests the parser makes on a line are computed on text; the
\* tokenisation of the numbers and the replace() chain are given with the
\* line.  Amounts are whole rupees.
\* ------------------------------------------------------------------------
\* /\d+\.\d{2}/
HasDecimals(s) ==
    \E i \in 1..(Len(s) - 3) :
        s[i] \in Digits /\ s[i + 1] = "." /\ s[i + 2] \in Digits /\ s[i + 3] \in Digits

\* /\d{2}[\/\-]\d{2}/
DatePattern(s) ==
    \E i \in 1..(Len(s) - 4) :
        /\ s[i] \in Digits /\ s[i + 1] \in Digits
        /\ s[i + 2] \in {"/", "-"}
        /\ s[i + 3] \in Digits /\ s[i + 4] \in Digits

\* /a\s*b/ : a, any run of white space, b
includesSpaced(s, a, b) ==
    \E i \in 0..(Len(s) - Len(a) - Len(b)) :
        /\ SubSeq(s, i + 1, i + Len(a)) = a
        /\ \E j \in (i + Len(a) + 1)..(Len(s) - Len(b) + 1) :
              /\ \A k \in (i + Len(a) + 1)..(j - 1) : s[k] = " "
              /\ SubSeq(s, j, j + Len(b) - 1) = b

startsWithAny(s, prefixes) ==
    \E j \in DOMAIN prefixes :
        Len(prefixes[j]) <= Len(s) /\ SubSeq(s, 1, Len(prefixes[j])) = prefixes[j]

Min(a, b) == IF a < b THEN a ELSE b

Alnum == UpperSet \cup LowerSet \cup Digits

Cardinality_of(s, cls) == Cardinality({i \in DOMAIN s : s[i] \in cls})

\* word.charAt(0).toUpperCase() + word.slice(1) on every word of the lower-cased string
titleCase(str) ==
    LET l == toLowerCase(str) IN
    Array([i \in 1..Len(l) |-> IF i = 1 \/ l[i - 1] = " " THEN UpperChar(l[i]) ELSE l[i]])

isCategoryHeader(text) ==
    includesAny(text, CATEGORY_HEADERS) /\ ~HasDecimals(text)

\* the first category of CATEGORY_KEYWORDS one of whose keywords occurs; <<>> is null
detectCategory(text) ==
    LET hits == {c \in DOMAIN CATEGORY_KEYWORDS : includesAny(text, CATEGORY_KEYWORDS[c][2])}
    IN  IF hits = {} THEN <<>>
        ELSE CATEGORY_KEYWORDS[CHOOSE c \in hits : \A d \in hits : c <= d][1]

SkipLine(text) ==
    LET l == toLowerCase(trim(text)) IN
    \/ startsWithAny(l, SKIP_PREFIXES)
    \/ includesAny(l, SKIP_WORDS)
    \/ includesSpaced(l, <<"h">>, <<"n","o">>)
    \/ includesSpaced(l, <<"p","i","n">>, <<"c","o","d","e">>)
    \/ includesSpaced(l, <<"p","a","n">>, <<"n","o">>)
    \/ includesSpaced(l, <<"c","o","n","s","u","l","t","a","t","i","o","n">>, <<"d","a","t","e">>)
    \/ includesSpaced(l, <<"t","h","a","n","k">>, <<"y","o","u">>)
    \/ HasRun(l, Digits, 10)

\* the item parseLineItem returns for the line; NoItem is its null
NoItem == [itemName |-> <<>>]

\* the last number need only be no smaller than the one before it
parseLineItem_NotSmaller(line, defaultCategory) ==
    LET lowerLine == toLowerCase(line.text)
        isPositive(n) == n > 0
        numericAmounts == SelectSeq(line.nums, isPositive)
        k == Len(numericAmounts)
        quantity == IF line.qty # 0 THEN line.qty ELSE 1
        itemName == line.name
        category == OrStr(detectCategory(lowerLine), defaultCategory)
        lastAmount == numericAmounts[k]
        threeColumns == k >= 3 /\ numericAmounts[1] = quantity
        totalBilled == IF threeColumns THEN numericAmounts[3] ELSE lastAmount
        unitPrice == IF threeColumns THEN numericAmounts[2]
                     ELSE IF k >= 2 /\ numericAmounts[k] >= numericAmounts[k - 1]
                          THEN numericAmounts[k - 1]
                     ELSE OrNum(line.mrp, lastAmount \div quantity)
    IN  IF SkipLine(line.text) THEN NoItem
        ELSE IF includesAny(line.text, URL_MARKS) THEN NoItem
        ELSE IF k = 0 THEN NoItem
        ELSE IF /\ \E i \in 1..k : numericAmounts[i] > HIGH_PRICE
                /\ ~includesAny(lowerLine, EXPENSIVE_CONTEXT) THEN NoItem
        ELSE IF Len(itemName) < 3 THEN NoItem
        ELSE IF Cardinality_of(itemName, Alnum) = 0 THEN NoItem
        ELSE IF 2 * Cardinality_of(itemName, Alnum) < Len(itemName) THEN NoItem
        ELSE [ itemName    |-> titleCase(itemName),
               category    |-> category,
               quantity    |-> quantity,
               unitPrice   |-> unitPrice,
               totalBilled |-> totalBilled ]

parseLineItem(line, defaultCategory) ==
    LET lowerLine == toLowerCase(line.text)
        isPositive(n) == n > 0
        numericAmounts == SelectSeq(line.nums, isPositive)
        k == Len(numericAmounts)
        quantity == IF line.qty # 0 THEN line.qty ELSE 1
        itemName == line.name
        category == OrStr(detectCategory(lowerLine), defaultCategory)
        lastAmount == numericAmounts[k]
        threeColumns == k >= 3 /\ numericAmounts[1] = quantity
        totalBilled == IF threeColumns THEN numericAmounts[3] ELSE lastAmount
        unitPrice == IF threeColumns THEN numericAmounts[2]
                     ELSE IF k >= 2 /\ numericAmounts[k] > numericAmounts[k - 1]
                          THEN numericAmounts[k - 1]
                     ELSE OrNum(line.mrp, lastAmount \div quantity)
    IN  IF SkipLine(line.text) THEN NoItem
        ELSE IF includesAny(line.text, URL_MARKS) THEN NoItem
        ELSE IF k = 0 THEN NoItem
        ELSE IF /\ \E i \in 1..k : numericAmounts[i] > HIGH_PRICE
                /\ ~includesAny(lowerLine, EXPENSIVE_CONTEXT) THEN NoItem
        ELSE IF Len(itemName) < 3 THEN NoItem
        ELSE IF Cardinality_of(itemName, Alnum) = 0 THEN NoItem
        ELSE IF 2 * Cardinality_of(itemName, Alnum) < Len(itemName) THEN NoItem
        ELSE [ itemName    |-> titleCase(itemName),
               category    |-> category,
               quantity    |-> quantity,
               unitPrice   |-> unitPrice,
               totalBilled |-> totalBilled ]

\* the category a header line moves the cursor to; <<>> for a line that
\* is no header or names no category
HeaderCategory(line) ==
    IF isCategoryHeader(toLowerCase(line.text)) THEN detectCategory(toLowerCase(line.text))
    ELSE <<>>

\* the category cursor when the loop reaches line i: the category of the
\* last header before it that named one, else the initial category
CategoryAt(headers, i, initialCategory) ==
    LET named == {j \in 1..(i - 1) : headers[j] # <<>>}
    IN  IF named = {} THEN initialCategory
        ELSE headers[CHOOSE j \in named : \A k \in named : k <= j]

\* the loop of parseBillText over the lines, with its category cursor
ParseLinesWith(lines, headers, initialCategory) ==
    SelectSeq([i \in 1..Len(lines) |->
                  IF isCategoryHeader(toLowerCase(lines[i].text)) THEN NoItem
                  ELSE parseLineItem(lines[i], CategoryAt(headers, i, initialCategory))],
              LAMBDA item : item # NoItem)

ParseLines(lines, initialCategory) ==
    ParseLinesWith(lines, Array([i \in 1..Len(lines) |-> HeaderCategory(lines[i])]),
                   initialCategory)

\* hospital name: the first of the first five lines longer than five
\* characters and all upper case; <<>> when there is none
RECURSIVE FirstUpperLine(_)
FirstUpperLine(lines) ==
    IF lines = <<>> THEN <<>>
    ELSE IF /\ Len(Head(lines).text) > 5
            /\ Head(lines).text = toUpperCase(Head(lines).text)
            /\ ~DatePattern(Head(lines).text)
         THEN titleCase(Head(lines).text)
    ELSE FirstUpperLine(Tail(lines))

parseBillText(text) ==
    [ hospitalName |-> FirstUpperLine(SubSeq(text, 1, Min(5, Len(text)))),
      billDate     |-> "valid",
      items        |-> ParseLines(text, Cat_Other) ]


\* let currentCategory = 'Other' where a call starts, whatever the loop of
\* an earlier call left behind
InitialCategory_CarriedOver(previous) == previous

InitialCategory(previous) == Cat_Other

\* the loop of parseBillText line by line: a header moves the cursor and is
\* skipped, any other line is handed to parseLineItem with the cursor
RECURSIVE ParseLoop(_, _, _)
ParseLoop(lines, currentCategory, items) ==
    IF lines = <<>> THEN [items |-> items, cursor |-> currentCategory]
    ELSE IF isCategoryHeader(toLowerCase(Head(lines).text))
         THEN ParseLoop(Tail(lines),
                        OrStr(detectCategory(toLowerCase(Head(lines).text)), currentCategory),
                        items)
    ELSE LET item == parseLineItem(Head(lines), currentCategory)
         IN  ParseLoop(Tail(lines), currentCategory,
                       IF item = NoItem THEN items ELSE Append(items, item))
\* mockOcrResult().text, line by line
MOCK_TEXT_LINES ==
    <<
    \* CITY GENERAL HOSPITAL
         [ text |-> <<"C","I","T","Y"," ","G","E","N","E","R","A","L"," ","H","O","S","P","I","T","A","L">>,
           name |-> <<"C","I","T","Y"," ","G","E","N","E","R","A","L"," ","H","O","S","P","I","T","A","L">>,
           nums |-> <<>>, qty |-> 0, mrp |-> 0 ],
    \* 123 Medical Lane, Mumbai - 400001
         [ text |-> <<"1","2","3"," ","M","e","d","i","c","a","l"," ","L","a","n","e",","," ","M","u","m","b","a","i"," ","-"," ","4","0","0","0","0","1">>,
           name |-> <<"M","e","d","i","c","a","l"," ","L","a","n","e",","," ","M","u","m","b","a","i"," ","-">>,
           nums |-> <<123, 400001>>, qty |-> 0, mrp |-> 0 ],
    \* GSTIN: 27AABCU9603R1ZM
         [ text |-> <<"G","S","T","I","N",":"," ","2","7","A","A","B","C","U","9","6","0","3","R","1","Z","M">>,
           name |-> <<"G","S","T","I","N","A","A","B","C","U","R","Z","M">>,
           nums |-> <<27, 9603, 1>>, qty |-> 0, mrp |-> 0 ],
    \* Phone: 022-12345678
         [ text |-> <<"P","h","o","n","e",":"," ","0","2","2","-","1","2","3","4","5","6","7","8">>,
           name |-> <<"P","h","o","n","e","-">>,
           nums |-> <<22, 12345678>>, qty |-> 0, mrp |-> 0 ],
    \* PATIENT DETAILS
         [ text |-> <<"P","A","T","I","E","N","T"," ","D","E","T","A","I","L","S">>,
           name |-> <<"P","A","T","I","E","N","T"," ","D","E","T","A","I","L","S">>,
           nums |-> <<>>, qty |-> 0, mrp |-> 0 ],
    \* Name: John Doe
         [ text |-> <<"N","a","m","e",":"," ","J","o","h","n"," ","D","o","e">>,
           name |-> <<"N","a","m","e",":"," ","J","o","h","n"," ","D","o","e">>,
           nums |-> <<>>, qty |-> 0, mrp |-> 0 ],
    \* Age: 45 Years / Male
         [ text |-> <<"A","g","e",":"," ","4","5"," ","Y","e","a","r","s"," ","/"," ","M","a","l","e">>,
           name |-> <<"A","g","e","Y","e","a","r","s"," ","/"," ","M","a","l","e">>,
           nums |-> <<45>>, qty |-> 0, mrp |-> 0 ],
    \* Patient ID: PID-2024-12345
         [ text |-> <<"P","a","t","i","e","n","t"," ","I","D",":"," ","P","I","D","-","2","0","2","4","-","1","2","3","4","5">>,
           name |-> <<"P","a","t","i","e","n","t"," ","I","D",":"," ","P","I","D","-","-">>,
           nums |-> <<2024, 12345>>, qty |-> 0, mrp |-> 0 ],
    \* Admission: 20/12/2024
         [ text |-> <<"A","d","m","i","s","s","i","o","n",":"," ","2","0","/","1","2","/","2","0","2","4">>,
           name |-> <<"A","d","m","i","s","s","i","o","n","/","/">>,
           nums |-> <<20, 12, 2024>>, qty |-> 0, mrp |-> 0 ],
    \* Discharge: 23/12/2024
         [ text |-> <<"D","i","s","c","h","a","r","g","e",":"," ","2","3","/","1","2","/","2","0","2","4">>,
           name |-> <<"D","i","s","c","h","a","r","g","e","/","/">>,
           nums |-> <<23, 12, 2024>>, qty |-> 0, mrp |-> 0 ],
    \* BILL DETAILS                           Bill No: INV-2024-98765
         [ text |-> <<"B","I","L","L"," ","D","E","T","A","I","L","S"," "," "," "," "," "," "," "," "," "," "," "," "," "," "," "," "," "," "," "," "," "," "," "," "," "," "," ","B","i","l","l"," ","N","o",":"," ","I","N","V","-","2","0","2","4","-","9","8","7","6","5">>,
           name |-> <<"B","I","L","L"," ","D","E","T","A","I","L","S"," ","B","i","l","l"," ","N","o",":"," ","I","N","V","-","-">>,
           nums |-> <<2024, 98765>>, qty |-> 0, mrp |-> 0 ],
    \* Date: 23/12/2024
         [ text |-> <<"D","a","t","e",":"," ","2","3","/","1","2","/","2","0","2","4">>,
           name |-> <<"D","a","t","e","/","/">>,
           nums |-> <<23, 12, 2024>>, qty |-> 0, mrp |-> 0 ],
    \* PHARMACY
         [ text |-> <<"P","H","A","R","M","A","C","Y">>,
           name |-> <<"P","H","A","R","M","A","C","Y">>,
           nums |-> <<>>, qty |-> 0, mrp |-> 0 ],
    \* 1. Paracetamol 500mg Tab    Qty: 20    MRP: 3.00    Total: 60.00
         [ text |-> <<"1","."," ","P","a","r","a","c","e","t","a","m","o","l"," ","5","0","0","m","g"," ","T","a","b"," "," "," "," ","Q","t","y",":"," ","2","0"," "," "," "," ","M","R","P",":"," ","3",".","0","0"," "," "," "," ","T","o","t","a","l",":"," ","6","0",".","0","0">>,
           name |-> <<"P","a","r","a","c","e","t","a","m","o","l","m","g"," ","T","a","b"," ","M","R","P",".","T","o","t","a","l",".">>,
           nums |-> <<1, 500, 20, 3, 60>>, qty |-> 0, mrp |-> 3 ],
    \* 2. Amoxicillin 500mg Cap    Qty: 15    MRP: 8.00    Total: 120.00
         [ text |-> <<"2","."," ","A","m","o","x","i","c","i","l","l","i","n"," ","5","0","0","m","g"," ","C","a","p"," "," "," "," ","Q","t","y",":"," ","1","5"," "," "," "," ","M","R","P",":"," ","8",".","0","0"," "," "," "," ","T","o","t","a","l",":"," ","1","2","0",".","0","0">>,
           name |-> <<"A","m","o","x","i","c","i","l","l","i","n","m","g"," ","C","a","p"," ","M","R","P",".","T","o","t","a","l",".">>,
           nums |-> <<2, 500, 15, 8, 120>>, qty |-> 0, mrp |-> 8 ],
    \* 3. Omeprazole 20mg Cap      Qty: 10    MRP: 6.00    Total: 60.00
         [ text |-> <<"3","."," ","O","m","e","p","r","a","z","o","l","e"," ","2","0","m","g"," ","C","a","p"," "," "," "," "," "," ","Q","t","y",":"," ","1","0"," "," "," "," ","M","R","P",":"," ","6",".","0","0"," "," "," "," ","T","o","t","a","l",":"," ","6","0",".","0","0">>,
           name |-> <<"O","m","e","p","r","a","z","o","l","e","m","g"," ","C","a","p"," ","M","R","P",".","T","o","t","a","l",".">>,
           nums |-> <<3, 20, 10, 6, 60>>, qty |-> 0, mrp |-> 6 ],
    \* 4. Normal Saline 500ml      Qty: 4     MRP: 45.00   Total: 180.00
         [ text |-> <<"4","."," ","N","o","r","m","a","l"," ","S","a","l","i","n","e"," ","5","0","0","m","l"," "," "," "," "," "," ","Q","t","y",":"," ","4"," "," "," "," "," ","M","R","P",":"," ","4","5",".","0","0"," "," "," ","T","o","t","a","l",":"," ","1","8","0",".","0","0">>,
           name |-> <<"N","o","r","m","a","l"," ","S","a","l","i","n","e","m","l"," ","M","R","P",".","T","o","t","a","l",".">>,
           nums |-> <<4, 500, 4, 45, 180>>, qty |-> 0, mrp |-> 45 ],
    \* Pharmacy Total: 420.00
         [ text |-> <<"P","h","a","r","m","a","c","y"," ","T","o","t","a","l",":"," ","4","2","0",".","0","0">>,
           name |-> <<"P","h","a","r","m","a","c","y"," ","T","o","t","a","l",".">>,
           nums |-> <<420>>, qty |-> 0, mrp |-> 0 ],
    \* LABORATORY
         [ text |-> <<"L","A","B","O","R","A","T","O","R","Y">>,
           name |-> <<"L","A","B","O","R","A","T","O","R","Y">>,
           nums |-> <<>>, qty |-> 0, mrp |-> 0 ],
    \* 5. Complete Blood Count (CBC)           Total: 350.00
         [ text |-> <<"5","."," ","C","o","m","p","l","e","t","e"," ","B","l","o","o","d"," ","C","o","u","n","t"," ","(","C","B","C",")"," "," "," "," "," "," "," "," "," "," "," ","T","o","t","a","l",":"," ","3","5","0",".","0","0">>,
           name |-> <<"C","o","m","p","l","e","t","e"," ","B","l","o","o","d"," ","C","o","u","n","t"," ","(","C","B","C",")"," ","T","o","t","a","l",".">>,
           nums |-> <<5, 350>>, qty |-> 0, mrp |-> 0 ],
    \* 6. Lipid Profile                        Total: 600.00
         [ text |-> <<"6","."," ","L","i","p","i","d"," ","P","r","o","f","i","l","e"," "," "," "," "," "," "," "," "," "," "," "," "," "," "," "," "," "," "," "," "," "," "," "," ","T","o","t","a","l",":"," ","6","0","0",".","0","0">>,
           name |-> <<"L","i","p","i","d"," ","P","r","o","f","i","l","e"," ","T","o","t","a","l",".">>,
           nums |-> <<6, 600>>, qty |-> 0, mrp |-> 0 ],
    \* 7. Liver Function Test                  Total: 700.00
         [ text |-> <<"7","."," ","L","i","v","e","r"," ","F","u","n","c","t","i","o","n"," ","T","e","s","t"," "," "," "," "," "," "," "," "," "," "," "," "," "," "," "," "," "," ","T","o","t","a","l",":"," ","7","0","0",".","0","0">>,
           name |-> <<"L","i","v","e","r"," ","F","u","n","c","t","i","o","n"," ","T","e","s","t"," ","T","o","t","a","l",".">>,
           nums |-> <<7, 700>>, qty |-> 0, mrp |-> 0 ],
    \* 8. X-Ray Chest PA View                  Total: 400.00
         [ text |-> <<"8","."," ","X","-","R","a","y"," ","C","h","e","s","t"," ","P","A"," ","V","i","e","w"," "," "," "," "," "," "," "," "," "," "," "," "," "," "," "," "," "," ","T","o","t","a","l",":"," ","4","0","0",".","0","0">>,
           name |-> <<"X","-","R","a","y"," ","C","h","e","s","t"," ","P","A"," ","V","i","e","w"," ","T","o","t","a","l",".">>,
           nums |-> <<8, 400>>, qty |-> 0, mrp |-> 0 ],
    \* Lab Total: 2050.00
         [ text |-> <<"L","a","b"," ","T","o","t","a","l",":"," ","2","0","5","0",".","0","0">>,
           name |-> <<"L","a","b"," ","T","o","t","a","l",".">>,
           nums |-> <<2050>>, qty |-> 0, mrp |-> 0 ],
    \* ROOM CHARGES
         [ text |-> <<"R","O","O","M"," ","C","H","A","R","G","E","S">>,
           name |-> <<"R","O","O","M"," ","C","H","A","R","G","E","S">>,
           nums |-> <<>>, qty |-> 0, mrp |-> 0 ],
    \* 9. Semi-Private Room (3 days × 3500)    Total: 10500.00
         [ text |-> <<"9","."," ","S","e","m","i","-","P","r","i","v","a","t","e"," ","R","o","o","m"," ","(","3"," ","d","a","y","s"," ","x"," ","3","5","0","0",")"," "," "," "," ","T","o","t","a","l",":"," ","1","0","5","0","0",".","0","0">>,
           name |-> <<"S","e","m","i","-","P","r","i","v","a","t","e"," ","R","o","o","m"," ","(","d","a","y","s"," ","x",")"," ","T","o","t","a","l",".">>,
           nums |-> <<9, 3, 3500, 10500>>, qty |-> 0, mrp |-> 0 ],
    \* CONSULTATION
         [ text |-> <<"C","O","N","S","U","L","T","A","T","I","O","N">>,
           name |-> <<"C","O","N","S","U","L","T","A","T","I","O","N">>,
           nums |-> <<>>, qty |-> 0, mrp |-> 0 ],
    \* 10. Specialist Consultation (2 visits)   Total: 1500.00
         [ text |-> <<"1","0","."," ","S","p","e","c","i","a","l","i","s","t"," ","C","o","n","s","u","l","t","a","t","i","o","n"," ","(","2"," ","v","i","s","i","t","s",")"," "," "," ","T","o","t","a","l",":"," ","1","5","0","0",".","0","0">>,
           name |-> <<"S","p","e","c","i","a","l","i","s","t"," ","C","o","n","s","u","l","t","a","t","i","o","n"," ","(","v","i","s","i","t","s",")"," ","T","o","t","a","l",".">>,
           nums |-> <<10, 2, 1500>>, qty |-> 0, mrp |-> 0 ],
    \* NURSING
         [ text |-> <<"N","U","R","S","I","N","G">>,
           name |-> <<"N","U","R","S","I","N","G">>,
           nums |-> <<>>, qty |-> 0, mrp |-> 0 ],
    \* 11. Nursing Charges (3 days × 400)       Total: 1200.00
         [ text |-> <<"1","1","."," ","N","u","r","s","i","n","g"," ","C","h","a","r","g","e","s"," ","(","3"," ","d","a","y","s"," ","x"," ","4","0","0",")"," "," "," "," "," "," "," ","T","o","t","a","l",":"," ","1","2","0","0",".","0","0">>,
           name |-> <<"N","u","r","s","i","n","g"," ","C","h","a","r","g","e","s"," ","(","d","a","y","s"," ","x",")"," ","T","o","t","a","l",".">>,
           nums |-> <<11, 3, 400, 1200>>, qty |-> 0, mrp |-> 0 ],
    \* CONSUMABLES
         [ text |-> <<"C","O","N","S","U","M","A","B","L","E","S">>,
           name |-> <<"C","O","N","S","U","M","A","B","L","E","S">>,
           nums |-> <<>>, qty |-> 0, mrp |-> 0 ],
    \* 12. IV Cannula                Qty: 2    Total: 150.00
         [ text |-> <<"1","2","."," ","I","V"," ","C","a","n","n","u","l","a"," "," "," "," "," "," "," "," "," "," "," "," "," "," "," "," ","Q","t","y",":"," ","2"," "," "," "," ","T","o","t","a","l",":"," ","1","5","0",".","0","0">>,
           name |-> <<"I","V"," ","C","a","n","n","u","l","a"," ","T","o","t","a","l",".">>,
           nums |-> <<12, 2, 150>>, qty |-> 0, mrp |-> 0 ],
    \* 13. Surgical Gloves           Qty: 10   Total: 400.00
         [ text |-> <<"1","3","."," ","S","u","r","g","i","c","a","l"," ","G","l","o","v","e","s"," "," "," "," "," "," "," "," "," "," "," ","Q","t","y",":"," ","1","0"," "," "," ","T","o","t","a","l",":"," ","4","0","0",".","0","0">>,
           name |-> <<"S","u","r","g","i","c","a","l"," ","G","l","o","v","e","s"," ","T","o","t","a","l",".">>,
           nums |-> <<13, 10, 400>>, qty |-> 0, mrp |-> 0 ],
    \* 14. Syringe 5ml              Qty: 6    Total: 90.00
         [ text |-> <<"1","4","."," ","S","y","r","i","n","g","e"," ","5","m","l"," "," "," "," "," "," "," "," "," "," "," "," "," "," ","Q","t","y",":"," ","6"," "," "," "," ","T","o","t","a","l",":"," ","9","0",".","0","0">>,
           name |-> <<"S","y","r","i","n","g","e","m","l"," ","T","o","t","a","l",".">>,
           nums |-> <<14, 5, 6, 90>>, qty |-> 0, mrp |-> 0 ],
    \* Gross Total: 16310.00
         [ text |-> <<"G","r","o","s","s"," ","T","o","t","a","l",":"," ","1","6","3","1","0",".","0","0">>,
           name |-> <<"G","r","o","s","s"," ","T","o","t","a","l",".">>,
           nums |-> <<16310>>, qty |-> 0, mrp |-> 0 ],
    \* Discount: -500.00
         [ text |-> <<"D","i","s","c","o","u","n","t",":"," ","-","5","0","0",".","0","0">>,
           name |-> <<"D","i","s","c","o","u","n","t",":"," ","-",".">>,
           nums |-> <<500>>, qty |-> 0, mrp |-> 0 ],
    \* CGST (9%): 715.45
         [ text |-> <<"C","G","S","T"," ","(","9","%",")",":"," ","7","1","5",".","4","5">>,
           name |-> <<"C","G","S","T"," ","(","%",")",".">>,
           nums |-> <<9, 715>>, qty |-> 0, mrp |-> 0 ],
    \* SGST (9%): 715.45
         [ text |-> <<"S","G","S","T"," ","(","9","%",")",":"," ","7","1","5",".","4","5">>,
           name |-> <<"S","G","S","T"," ","(","%",")",".">>,
           nums |-> <<9, 715>>, qty |-> 0, mrp |-> 0 ],
    \* NET PAYABLE: 17240.90
         [ text |-> <<"N","E","T"," ","P","A","Y","A","B","L","E",":"," ","1","7","2","4","0",".","9","0">>,
           name |-> <<"N","E","T"," ","P","A","Y","A","B","L","E",".">>,
           nums |-> <<17240>>, qty |-> 0, mrp |-> 0 ],
    \* Payment Mode: Cash
         [ text |-> <<"P","a","y","m","e","n","t"," ","M","o","d","e",":"," ","C","a","s","h">>,
           name |-> <<"P","a","y","m","e","n","t"," ","M","o","d","e",":"," ","C","a","s","h">>,
           nums |-> <<>>, qty |-> 0, mrp |-> 0 ],
    \* Receipt No: REC-2024-45678
         [ text |-> <<"R","e","c","e","i","p","t"," ","N","o",":"," ","R","E","C","-","2","0","2","4","-","4","5","6","7","8">>,
           name |-> <<"R","e","c","e","i","p","t"," ","N","o",":"," ","R","E","C","-","-">>,
           nums |-> <<2024, 45678>>, qty |-> 0, mrp |-> 0 ]
    >>

TEXT_PHARMACY_LINES ==
    <<
    \* MEDIWELL PHARMACY
         [ text |-> <<"M","E","D","I","W","E","L","L"," ","P","H","A","R","M","A","C","Y">>,
           name |-> <<"M","E","D","I","W","E","L","L"," ","P","H","A","R","M","A","C","Y">>,
           nums |-> <<>>, qty |-> 0, mrp |-> 0 ],
    \* Bill No: 2304
         [ text |-> <<"B","i","l","l"," ","N","o",":"," ","2","3","0","4">>,
           name |-> <<"B","i","l","l"," ","N","o">>,
           nums |-> <<2304>>, qty |-> 0, mrp |-> 0 ],
    \* PHARMACY
         [ text |-> <<"P","H","A","R","M","A","C","Y">>,
           name |-> <<"P","H","A","R","M","A","C","Y">>,
           nums |-> <<>>, qty |-> 0, mrp |-> 0 ],
    \* Paracetamol Tab 2 nos 10.00 20.00
         [ text |-> <<"P","a","r","a","c","e","t","a","m","o","l"," ","T","a","b"," ","2"," ","n","o","s"," ","1","0",".","0","0"," ","2","0",".","0","0">>,
           name |-> <<"P","a","r","a","c","e","t","a","m","o","l"," ","T","a","b",".",".">>,
           nums |-> <<2, 10, 20>>, qty |-> 2, mrp |-> 0 ],
    \* Cash handling 50.00
         [ text |-> <<"C","a","s","h"," ","h","a","n","d","l","i","n","g"," ","5","0",".","0","0">>,
           name |-> <<"C","a","s","h"," ","h","a","n","d","l","i","n","g",".">>,
           nums |-> <<50>>, qty |-> 0, mrp |-> 0 ],
    \* Grand Total: 70.00
         [ text |-> <<"G","r","a","n","d"," ","T","o","t","a","l",":"," ","7","0",".","0","0">>,
           name |-> <<"G","r","a","n","d"," ","T","o","t","a","l",".">>,
           nums |-> <<70>>, qty |-> 0, mrp |-> 0 ]
    >>

TEXT_GROCERY_LINES ==
    <<
    \* FRESH MART SUPERMARKET
         [ text |-> <<"F","R","E","S","H"," ","M","A","R","T"," ","S","U","P","E","R","M","A","R","K","E","T">>,
           name |-> <<"F","R","E","S","H"," ","M","A","R","T"," ","S","U","P","E","R","M","A","R","K","E","T">>,
           nums |-> <<>>, qty |-> 0, mrp |-> 0 ],
    \* Grocery items 2 45.00 90.00
         [ text |-> <<"G","r","o","c","e","r","y"," ","i","t","e","m","s"," ","2"," ","4","5",".","0","0"," ","9","0",".","0","0">>,
           name |-> <<"G","r","o","c","e","r","y"," ","i","t","e","m","s",".",".">>,
           nums |-> <<2, 45, 90>>, qty |-> 0, mrp |-> 0 ],
    \* Total: 90.00
         [ text |-> <<"T","o","t","a","l",":"," ","9","0",".","0","0">>,
           name |-> <<"T","o","t","a","l",".">>,
           nums |-> <<90>>, qty |-> 0, mrp |-> 0 ]
    >>

TEXT_NOITEMS_LINES ==
    <<
    \* CITY CLINIC
         [ text |-> <<"C","I","T","Y"," ","C","L","I","N","I","C">>,
           name |-> <<"C","I","T","Y"," ","C","L","I","N","I","C">>,
           nums |-> <<>>, qty |-> 0, mrp |-> 0 ],
    \* Patient: John Doe
         [ text |-> <<"P","a","t","i","e","n","t",":"," ","J","o","h","n"," ","D","o","e">>,
           name |-> <<"P","a","t","i","e","n","t",":"," ","J","o","h","n"," ","D","o","e">>,
           nums |-> <<>>, qty |-> 0, mrp |-> 0 ]
    >>

TEXT_BLANK_LINES ==
    <<
    \* hello world
         [ text |-> <<"h","e","l","l","o"," ","w","o","r","l","d">>,
           name |-> <<"h","e","l","l","o"," ","w","o","r","l","d">>,
           nums |-> <<>>, qty |-> 0, mrp |-> 0 ]
    >>
VALIDATOR_MEDICAL_KEYWORDS ==
    << <<"h","o","s","p","i","t","a","l">>, <<"c","l","i","n","i","c">>,
       <<"m","e","d","i","c","a","l">>, <<"h","e","a","l","t","h","c","a","r","e">>,
       <<"h","e","a","l","t","h"," ","c","e","n","t","r","e">>,
       <<"n","u","r","s","i","n","g"," ","h","o","m","e">>,
       <<"d","i","a","g","n","o","s","t","i","c">>, <<"p","a","t","h","o","l","o","g","y">>,
       <<"l","a","b","o","r","a","t","o","r","y">>, <<"l","a","b"," ","r","e","p","o","r","t">>,
       <<"p","a","t","i","e","n","t">>, <<"a","d","m","i","s","s","i","o","n">>,
       <<"d","i","s","c","h","a","r","g","e">>, <<"o","p","d">>, <<"i","p","d">>,
       <<"i","n","p","a","t","i","e","n","t">>, <<"o","u","t","p","a","t","i","e","n","t">>,
       <<"p","r","e","s","c","r","i","p","t","i","o","n">>,
       <<"d","i","a","g","n","o","s","i","s">>, <<"t","r","e","a","t","m","e","n","t">>,
       <<"c","o","n","s","u","l","t","a","t","i","o","n">>, <<"b","i","l","l">>,
       <<"i","n","v","o","i","c","e">>, <<"r","e","c","e","i","p","t">>,
       <<"c","h","a","r","g","e","s">>, <<"p","h","a","r","m","a","c","y">>,
       <<"m","e","d","i","c","i","n","e">>, <<"d","r","u","g">>, <<"d","o","c","t","o","r">>,
       <<"d","r",".">>, <<"p","h","y","s","i","c","i","a","n">>, <<"s","u","r","g","e","o","n">>,
       <<"s","p","e","c","i","a","l","i","s","t">>, <<"n","u","r","s","i","n","g">>,
       <<"w","a","r","d">>, <<"i","c","u">>, <<"o","t">>,
       <<"o","p","e","r","a","t","i","o","n"," ","t","h","e","a","t","r","e">>,
       <<"e","m","e","r","g","e","n","c","y">>, <<"x","-","r","a","y">>, <<"x","r","a","y">>,
       <<"m","r","i">>, <<"c","t"," ","s","c","a","n">>,
       <<"u","l","t","r","a","s","o","u","n","d">>, <<"u","s","g">>, <<"e","c","g">>,
       <<"e","k","g">>, <<"b","l","o","o","d"," ","t","e","s","t">>,
       <<"u","r","i","n","e"," ","t","e","s","t">>, <<"b","i","o","p","s","y">>, <<"c","b","c">>,
       <<"h","e","m","o","g","l","o","b","i","n">>, <<"t","a","b","l","e","t">>,
       <<"c","a","p","s","u","l","e">>, <<"i","n","j","e","c","t","i","o","n">>,
       <<"s","y","r","u","p">>, <<"m","g">>, <<"m","l">>, <<"s","a","l","i","n","e">>, <<"i","v">>,
       <<"u","h","i","d">>, <<"m","r"," ","n","o">>, <<"r","e","g"," ","n","o">>,
       <<"r","e","g","i","s","t","r","a","t","i","o","n">>, <<"n","a","b","h">>,
       <<"n","a","b","l">> >>

NON_MEDICAL_KEYWORDS ==
    << <<"g","r","o","c","e","r","y">>, <<"s","u","p","e","r","m","a","r","k","e","t">>,
       <<"m","a","r","t">>, <<"s","t","o","r","e">>, <<"r","e","t","a","i","l">>,
       <<"s","h","o","p","p","i","n","g">>, <<"b","u","r","g","e","r">>, <<"p","i","z","z","a">>,
       <<"c","o","f","f","e","e">>, <<"r","e","s","t","a","u","r","a","n","t">>,
       <<"f","o","o","d">>, <<"b","e","v","e","r","a","g","e">>,
       <<"e","l","e","c","t","r","i","c","i","t","y">>,
       <<"w","a","t","e","r"," ","b","i","l","l">>, <<"g","a","s"," ","b","i","l","l">>,
       <<"i","n","t","e","r","n","e","t">>, <<"m","o","b","i","l","e">>,
       <<"t","e","l","e","c","o","m">>, <<"b","r","o","a","d","b","a","n","d">>, <<"d","t","h">>,
       <<"c","a","b","l","e">>, <<"p","e","t","r","o","l">>, <<"d","i","e","s","e","l">>,
       <<"f","u","e","l">>, <<"a","i","r","l","i","n","e">>, <<"f","l","i","g","h","t">>,
       <<"r","a","i","l","w","a","y">>, <<"b","u","s"," ","t","i","c","k","e","t">>,
       <<"u","b","e","r">>, <<"o","l","a">>, <<"c","a","b">>, <<"t","a","x","i">>,
       <<"b","a","n","k"," ","s","t","a","t","e","m","e","n","t">>,
       <<"c","r","e","d","i","t"," ","c","a","r","d">>, <<"l","o","a","n">>, <<"e","m","i">>,
       <<"i","n","s","u","r","a","n","c","e"," ","p","r","e","m","i","u","m">>,
       <<"a","m","a","z","o","n">>, <<"f","l","i","p","k","a","r","t">>,
       <<"m","y","n","t","r","a">>, <<"o","r","d","e","r"," ","i","d">>,
       <<"t","r","a","c","k","i","n","g">>, <<"d","e","l","i","v","e","r","y">>,
       <<"r","e","n","t">>, <<"m","a","i","n","t","e","n","a","n","c","e">>,
       <<"r","e","p","a","i","r">>, <<"p","l","u","m","b","e","r">>,
       <<"e","l","e","c","t","r","i","c","i","a","n">> >>
\* ------------------------------------------------------------------------
\* Bill-type validator (validator service)
\* ------------------------------------------------------------------------
\* lowerText.includes(keyword): no keyword holds a digit or a line break,
\* so a keyword occurs in the text when it occurs in the text of a line
TextIncludes(text, keyword) ==
    \E i \in DOMAIN text : includes(toLowerCase(text[i].text), keyword)

\* /\brs\.?\s*\d+/i : the word start "rs", an optional dot, white space, a digit
RsAmount(s) ==
    LET l == toLowerCase(s) IN
    \E i \in 1..(Len(l) - 2) :
        /\ l[i] = "r" /\ l[i + 1] = "s"
        /\ (i = 1 \/ l[i - 1] \notin Alnum)
        /\ \E j \in (i + 2)..Len(l) :
              /\ l[j] \in Digits
              /\ \/ \A k \in (i + 2)..(j - 1) : l[k] = " "
                 \/ i + 2 < j /\ l[i + 2] = "." /\ \A k \in (i + 3)..(j - 1) : l[k] = " "

\* the keywords of a lexicon found in the text, in lexicon order
Detected(text, lexicon) ==
    SelectSeq(lexicon, LAMBDA keyword : TextIncludes(text, keyword))

Reason_NoTerms == "Could not identify this as a medical bill. No medical-related terms found."
Reason_Unrecognized == "Unable to recognize document type. Please upload a clear hospital bill."
Reason_Unconfirmed == "Unable to confirm this is a medical bill."
Reason_Default == "This document does not appear to be a medical or hospital bill."

\* the non-medical keywords count once
NonMedicalScore_Unweighted(detectedNonMedical) == Len(detectedNonMedical)

\* detectedNonMedical.length * 2
NonMedicalScore(detectedNonMedical) == Len(detectedNonMedical) * 2

\* reason is "" for undefined; the reason of the non-medical branch names
\* the first non-medical keyword found
validateMedicalBill(text) ==
    LET detectedMedical == Detected(text, VALIDATOR_MEDICAL_KEYWORDS)
        detectedNonMedical == Detected(text, NON_MEDICAL_KEYWORDS)
        medicalScore == Len(detectedMedical)
        nonMedicalScore == NonMedicalScore(detectedNonMedical)
        hasAmounts == \E i \in DOMAIN text :
                          RsAmount(text[i].text) \/ HasDecimals(text[i].text)
    IN  IF medicalScore = 0 /\ nonMedicalScore = 0
        THEN IF hasAmounts
             THEN [isMedicalBill |-> FALSE, confidence |-> 30, reason |-> <<Reason_NoTerms>>]
             ELSE [isMedicalBill |-> FALSE, confidence |-> 10, reason |-> <<Reason_Unrecognized>>]
        ELSE IF medicalScore >= 3 /\ nonMedicalScore <= 1
        THEN [isMedicalBill |-> TRUE, confidence |-> Min(95, 50 + medicalScore * 5), reason |-> <<>>]
        ELSE IF medicalScore >= 1 /\ nonMedicalScore = 0
        THEN [isMedicalBill |-> TRUE, confidence |-> Min(80, 40 + medicalScore * 10), reason |-> <<>>]
        ELSE IF nonMedicalScore > medicalScore
        THEN [isMedicalBill |-> FALSE, confidence |-> Min(90, 50 + nonMedicalScore * 10),
              reason |-> <<"not a medical bill: ", detectedNonMedical[1]>>]
        ELSE [isMedicalBill |-> medicalScore >= 2, confidence |-> 50,
              reason |-> IF medicalScore >= 2 THEN <<>> ELSE <<Reason_Unconfirmed>>]

\* ------------------------------------------------------------------------
\* Price comparison (price-compare service).  A JavaScript number that need
\* not be whole is a fraction <<numerator, denominator>> in lowest terms
\* with a positive denominator; null is <<>> and a present value v is <<v>>.
\* ------------------------------------------------------------------------
RECURSIVE GCD(_, _)
GCD(a, b) == IF b = 0 THEN a ELSE GCD(b, a % b)

Frac(n, d) ==
    LET g == GCD(Abs(n), d) IN IF g = 0 THEN <<0, 1>> ELSE <<n \div g, d \div g>>

FracLess(x, y) == x[1] * y[2] < y[1] * x[2]
FracLeq(x, y) == x[1] * y[2] <= y[1] * x[2]
FracAdd(x, y) == Frac(x[1] * y[2] + y[1] * x[2], x[2] * y[2])
FracSub(x, y) == Frac(x[1] * y[2] - y[1] * x[2], x[2] * y[2])
FracMul(x, y) == Frac(x[1] * y[1], x[2] * y[2])

\* s.split(/\s+/) of a trimmed string
RECURSIVE SplitWords(_, _)
SplitWords(s, word) ==
    IF s = <<>> THEN <<word>>
    ELSE IF Head(s) = " "
         THEN IF word = <<>> THEN SplitWords(Tail(s), <<>>)
              ELSE <<word>> \o SplitWords(Tail(s), <<>>)
    ELSE SplitWords(Tail(s), Append(word, Head(s)))

LongWords(s) == SelectSeq(SplitWords(s, <<>>), LAMBDA w : Len(w) > 2)

\* the word-based score: the share of the query's words that contain, or
\* are contained in, a word of the target
WordScore(qWords, tWords) ==
    IF Len(qWords) = 0 THEN <<0, 1>>
    ELSE Frac(Cardinality({i \in DOMAIN qWords :
                              \E j \in DOMAIN tWords :
                                  includes(tWords[j], qWords[i]) \/ includes(qWords[i], tWords[j])}),
              Len(qWords))

\* the containment score as query length over target length
NormalizedScore_QueryOverTarget(q, t) ==
    IF q = t THEN <<1, 1>>
    ELSE IF includes(t, q) \/ includes(q, t) THEN Frac(Len(q), Len(t))
    ELSE WordScore(LongWords(q), LongWords(t))

\* the score of the lower-cased, trimmed strings q and t
NormalizedScore(q, t) ==
    IF q = t THEN <<1, 1>>
    ELSE IF includes(t, q) \/ includes(q, t)
         THEN IF Len(q) < Len(t) THEN Frac(Len(q), Len(t)) ELSE Frac(Len(t), Len(q))
    ELSE WordScore(LongWords(q), LongWords(t))

fuzzyScore(query, target) == NormalizedScore(trim(toLowerCase(query)), trim(toLowerCase(target)))

THRESHOLD == <<4, 10>>
GOOD_MATCH == <<7, 10>>
CATEGORY_BOOST == <<1, 10>>

SameCategory(entry, item) == toLowerCase(entry.categoryName) = toLowerCase(item.category)

\* score + categoryBoost
TotalScore(item, entry) ==
    FracAdd(fuzzyScore(item.itemName, entry.itemName),
            IF SameCategory(entry, item) THEN CATEGORY_BOOST ELSE <<0, 1>>)

\* every acceptable entry replaces the best one so far
Consider_LastAccepted(best, entry, totalScore) ==
    IF FracLeq(THRESHOLD, totalScore)
    THEN [match |-> <<entry.id>>, score |-> totalScore]
    ELSE best

\* the update of bestMatch and bestScore; best = [match, score], match
\* <<>> is null, otherwise <<id>> of the catalog entry
\* the best score so far wins without the minimum
Consider_NoMinimum(best, entry, totalScore) ==
    IF FracLess(best.score, totalScore)
    THEN [match |-> <<entry.id>>, score |-> totalScore]
    ELSE best

Consider(best, entry, totalScore) ==
    IF FracLess(best.score, totalScore) /\ FracLeq(THRESHOLD, totalScore)
    THEN [match |-> <<entry.id>>, score |-> totalScore]
    ELSE best

\* the inner loop over one search set
RECURSIVE ScanEntries(_, _, _)
ScanEntries(entries, item, best) ==
    IF entries = <<>> THEN best
    ELSE ScanEntries(Tail(entries), item,
                     Consider(best, Head(entries), TotalScore(item, Head(entries))))

\* after the category-filtered set: stop on a good match, else search all
SearchAll(first, item, entries) ==
    IF first.match # <<>> /\ FracLess(GOOD_MATCH, first.score) THEN first.match
    ELSE ScanEntries(entries, item, first).match

findBestMatch(item, entries) ==
    SearchAll(ScanEntries(SelectSeq(entries, LAMBDA p : SameCategory(p, item)), item,
                          [match |-> <<>>, score |-> <<0, 1>>]),
              item, entries)

EntryById(entries, id) ==
    entries[CHOOSE i \in DOMAIN entries : entries[i].id = id]

\* item.unitPrice || item.totalBilled / item.quantity
unitPriceCharged(item) ==
    IF item.unitPrice # 0 THEN <<item.unitPrice, 1>> ELSE Frac(item.totalBilled, item.quantity)

\* exactly double the ceiling counts as suspicious
Classify_AtLeastDouble(overchargePerUnit, ceilingPrice) ==
    IF FracLeq(overchargePerUnit, <<0, 1>>) THEN "fair"
    ELSE IF FracLeq(<<1, 1>>, Frac(overchargePerUnit[1], overchargePerUnit[2] * ceilingPrice))
         THEN "suspicious"
    ELSE "overcharged"

\* the status branch of comparePrices
Classify(overchargePerUnit, ceilingPrice) ==
    IF FracLeq(overchargePerUnit, <<0, 1>>) THEN "fair"
    ELSE IF FracLess(<<1, 1>>, Frac(overchargePerUnit[1], overchargePerUnit[2] * ceilingPrice))
         THEN "suspicious"
    ELSE "overcharged"

\* the total is returned without Math.max
FracMax0_Identity(x) == IF x[1] < 0 THEN x ELSE x

\* Math.max(0, x)
FracMax0(x) == IF x[1] < 0 THEN <<0, 1>> ELSE x

\* the result for an item without a match
NotFound(item, charged) ==
    [ itemName |-> item.itemName, category |-> item.category, quantity |-> item.quantity,
      unitPrice |-> charged, totalBilled |-> item.totalBilled,
      govtCeilingPrice |-> <<>>, overchargeAmount |-> <<0, 1>>, status |-> "not_found",
      priceSource |-> <<>>, sourceDate |-> <<>> ]

\* the date of the matched entry is not copied
Priced_NullDate(item, match, charged, overchargePerUnit, status) ==
    [ itemName |-> item.itemName, category |-> item.category, quantity |-> item.quantity,
      unitPrice |-> charged, totalBilled |-> item.totalBilled,
      govtCeilingPrice |-> <<overchargePerUnit.ceilingPrice>>,
      overchargeAmount |-> FracMax0(IF status = "fair" THEN <<0, 1>>
                                    ELSE FracMul(overchargePerUnit.perUnit, <<item.quantity, 1>>)),
      status |-> status, priceSource |-> <<overchargePerUnit.priceSource>>,
      sourceDate |-> <<>> ]

\* the result for an item matched to an entry with this ceiling price
Priced(item, match, charged, overchargePerUnit, status) ==
    [ itemName |-> item.itemName, category |-> item.category, quantity |-> item.quantity,
      unitPrice |-> charged, totalBilled |-> item.totalBilled,
      govtCeilingPrice |-> <<overchargePerUnit.ceilingPrice>>,
      overchargeAmount |-> FracMax0(IF status = "fair" THEN <<0, 1>>
                                    ELSE FracMul(overchargePerUnit.perUnit, <<item.quantity, 1>>)),
      status |-> status, priceSource |-> <<overchargePerUnit.priceSource>>,
      sourceDate |-> <<overchargePerUnit.sourceDate>> ]

\* `${match.source} (${match.itemCode || 'N/A'})`
PriceSourceOf(match) ==
    [source |-> match.source, itemCode |-> OrStr(match.itemCode, <<"N","/","A">>)]

\* what the result takes from the matched entry, and the overcharge per unit
Overcharge(charged, match) ==
    [ceilingPrice |-> match.ceilingPrice,
     perUnit |-> FracSub(charged, <<match.ceilingPrice, 1>>),
     priceSource |-> PriceSourceOf(match), sourceDate |-> match.publishedDate]

Compared(item, match, charged, overcharge) ==
    IF match = <<>> THEN NotFound(item, charged)
    ELSE Priced(item, match, charged, overcharge[1],
                Classify(overcharge[1].perUnit, overcharge[1].ceilingPrice))

MatchedOvercharge(match, charged, entries) ==
    IF match = <<>> THEN <<>>
    ELSE << Overcharge(charged, EntryById(entries, match[1])) >>

WithMatch(item, match, charged, entries) ==
    Compared(item, match, charged, MatchedOvercharge(match, charged, entries))

\* the body of the map of comparePrices
compareItem(item, entries) ==
    WithMatch(item, findBestMatch(item, entries), unitPriceCharged(item), entries)

\* items without a match are left out of the result
comparePrices_SkipUnmatched(items, entries) ==
    SelectSeq(Array([i \in 1..Len(items) |-> compareItem(items[i], entries)]),
              LAMBDA r : r.status # "not_found")

comparePrices(items, entries) ==
    Array([i \in 1..Len(items) |-> compareItem(items[i], entries)])


\* ------------------------------------------------------------------------
\* calculateSummary.  The sums are exact; the rounding of floating-point
\* addition is not modelled.
\* ------------------------------------------------------------------------
FracDiv(x, y) ==
    IF y[1] < 0 THEN Frac(0 - x[1] * y[2], 0 - x[2] * y[1]) ELSE Frac(x[1] * y[2], x[2] * y[1])

\* summands.reduce((sum, x) => sum + x, sum)
RECURSIVE SumOf(_, _)
SumOf(summands, sum) ==
    IF summands = <<>> THEN sum
    ELSE SumOf(Tail(summands), FracAdd(sum, Head(summands)))

\* the summand of totalFairPrice: a ceiling of null or 0 is falsy
FairPriceOf(r) ==
    IF r.govtCeilingPrice # <<>> /\ r.govtCeilingPrice[1] # 0
    THEN <<r.govtCeilingPrice[1] * r.quantity, 1>>
    ELSE <<r.totalBilled, 1>>

CountOf(results, statuses) == Len(SelectSeq(results, LAMBDA r : r.status \in statuses))

\* the percentage is computed whatever the sign of totalBilled
savingsPercent_NonZero(totalBilled, totalOvercharge) ==
    IF totalBilled[1] # 0 THEN FracMul(FracDiv(totalOvercharge, totalBilled), <<100, 1>>)
    ELSE <<0, 1>>

\* totalBilled > 0 ? (totalOvercharge / totalBilled * 100) : 0
savingsPercent(totalBilled, totalOvercharge) ==
    IF totalBilled[1] > 0 THEN FracMul(FracDiv(totalOvercharge, totalBilled), <<100, 1>>)
    ELSE <<0, 1>>

Summarized(results, totalBilled, totalOvercharge) ==
    [ totalBilled |-> totalBilled,
      totalFairPrice |-> SumOf([i \in DOMAIN results |-> FairPriceOf(results[i])], <<0, 1>>),
      totalOvercharge |-> totalOvercharge,
      overchargedCount |-> CountOf(results, {"overcharged", "suspicious"}),
      fairCount |-> CountOf(results, {"fair"}),
      notFoundCount |-> CountOf(results, {"not_found"}),
      itemCount |-> Len(results),
      savingsPercent |-> savingsPercent(totalBilled, totalOvercharge) ]

calculateSummary(results) ==
    Summarized(results,
               SumOf([i \in DOMAIN results |-> <<results[i].totalBilled, 1>>], <<0, 1>>),
               SumOf([i \in DOMAIN results |-> results[i].overchargeAmount], <<0, 1>>))
\* ------------------------------------------------------------------------
\* Reference price catalog (routes: priceDatabase); a sample of entries
\* ------------------------------------------------------------------------
Name_Paracetamol == <<"P","a","r","a","c","e","t","a","m","o","l"," ","5","0","0","m","g">>
Name_Unknown == <<"U","n","k","n","o","w","n">>
Name_ICU == <<"I","C","U"," ","S","t","a","y">>
Name_BillNo == <<"B","i","l","l"," ","N","o"," ","2","3","0","4">>
Name_Discount == <<"D","i","s","c","o","u","n","t">>
Name_CBC == <<"C","o","m","p","l","e","t","e"," ","B","l","o","o","d"," ","C","o","u","n","t">>
Name_Mediwell == <<"M","e","d","i","w","e","l","l"," ","P","h","a","r","m","a","c","y">>
City_General_Hospital ==
    <<"C","i","t","y"," ","G","e","n","e","r","a","l"," ","H","o","s","p","i","t","a","l">>

\* an entry as the map over the seed data builds it
GovtPriceEntry(id, category, name, code, price, source, published) ==
    [id |-> id, categoryName |-> category, itemName |-> name, itemCode |-> code,
     ceilingPrice |-> price, source |-> source, publishedDate |-> published]

priceDatabase ==
    << GovtPriceEntry(1, Cat_Medicine, Name_Paracetamol, <<"N","P","P","A","-","0","0","1">>, 10,
                      "NPPA", 20240315),
       GovtPriceEntry(2, Cat_Test, Name_CBC, <<"C","G","H","S","-","T","0","0","1">>, 300,
                      "CGHS", 20240101),
       GovtPriceEntry(3, Cat_Room, Name_ICU, <<>>, 5000, "CGHS", 20240101) >>

\* ------------------------------------------------------------------------
\* Answers of the extraction backends
\* ------------------------------------------------------------------------
\* all sequences of at most n elements of S
SeqsUpTo(S, n) == UNION {[1..k -> S] : k \in 0..n}

\* line items of a Mindee prediction; a missing field is <<>> or 0
MindeeLineItems ==
    { [description |-> Name_Paracetamol, quantity |-> 2, unitPrice |-> 10, totalAmount |-> 20],
      [description |-> Name_Paracetamol, quantity |-> 1, unitPrice |-> 272, totalAmount |-> 272],
      [description |-> Name_Unknown, quantity |-> 1, unitPrice |-> 9999999, totalAmount |-> 9999999],
      [description |-> Name_Unknown, quantity |-> 1, unitPrice |-> 9999999, totalAmount |-> 0],
      [description |-> Name_ICU, quantity |-> 0, unitPrice |-> 150000, totalAmount |-> 150000],
      [description |-> Name_BillNo, quantity |-> 1, unitPrice |-> 10, totalAmount |-> 10] }

\* the header fields of a prediction
MindeeHeaders ==
    { [supplierName |-> <<>>, date |-> "missing", totalAmount |-> 0],
      [supplierName |-> Name_Mediwell, date |-> "valid", totalAmount |-> 272],
      [supplierName |-> Name_Mediwell, date |-> "invalid", totalAmount |-> 272] }

\* the call throws, the response holds no prediction, or a prediction
MindeeAnswers ==
    { [kind |-> k, supplierName |-> <<>>, date |-> "missing", totalAmount |-> 0, lineItems |-> <<>>] :
          k \in {"throws", "noPrediction"} }
    \cup
    { [kind |-> "prediction", supplierName |-> h.supplierName, date |-> h.date,
       totalAmount |-> h.totalAmount, lineItems |-> l] :
          h \in MindeeHeaders, l \in SeqsUpTo(MindeeLineItems, MaxItems) }

\* items of the JSON a Gemini model answers with; totalAmount -1 is a
\* totalAmount that is not a number
GeminiItems ==
    { [itemName |-> Name_Paracetamol, category |-> Cat_Medicine, quantity |-> 2,
       unitPrice |-> 10, totalBilled |-> 20],
      [itemName |-> Name_Paracetamol, category |-> Cat_Medicine, quantity |-> 1,
       unitPrice |-> 272, totalBilled |-> 272],
      [itemName |-> Name_Unknown, category |-> Cat_Other, quantity |-> 1,
       unitPrice |-> 9999999, totalBilled |-> 9999999],
      [itemName |-> Name_ICU, category |-> Cat_Room, quantity |-> 1,
       unitPrice |-> 150000, totalBilled |-> 150000],
      [itemName |-> Name_BillNo, category |-> <<>>, quantity |-> 0,
       unitPrice |-> 0, totalBilled |-> 2304],
      [itemName |-> <<>>, category |-> <<>>, quantity |-> 0,
       unitPrice |-> 0, totalBilled |-> 0] }

\* the header fields of the JSON; a confidence of -1 is not a number
GeminiHeaders ==
    { [hospitalName |-> <<>>, billDate |-> "missing", totalAmount |-> -1, confidence |-> -1],
      [hospitalName |-> Name_Mediwell, billDate |-> "valid", totalAmount |-> 272,
       confidence |-> 95],
      [hospitalName |-> Name_Mediwell, billDate |-> "invalid", totalAmount |-> 272,
       confidence |-> 95] }

\* the call throws, the answer is not JSON, or the JSON
GeminiAnswers ==
    { [kind |-> k, hospitalName |-> <<>>, billDate |-> "missing", totalAmount |-> -1,
       confidence |-> -1, items |-> <<>>] : k \in {"throws", "badJson"} }
    \cup
    { [kind |-> "json", hospitalName |-> h.hospitalName, billDate |-> h.billDate,
       totalAmount |-> h.totalAmount, confidence |-> h.confidence, items |-> l] :
          h \in GeminiHeaders, l \in SeqsUpTo(GeminiItems, MaxItems) }

OcrTexts == {TEXT_PHARMACY_LINES, TEXT_GROCERY_LINES, TEXT_NOITEMS_LINES, TEXT_BLANK_LINES}

\* answers of the OCR.space call: the fetch rejects or answers not-ok
\* ("throws"), the body reports a processing error ("errored"), the first
\* parsed result is missing or has a failing exit code ("noResult"), or
\* the text is returned
OcrAnswers ==
    { [kind |-> k, text |-> <<>>] : k \in {"throws", "errored", "noResult"} }
    \cup { [kind |-> "parsed", text |-> t] : t \in OcrTexts }

\* ------------------------------------------------------------------------
\* The adapters around the backend calls
\* ------------------------------------------------------------------------
\* parseWithMindee after its client check: <<>> is null
parseWithMindee(answer) ==
    IF answer.kind # "prediction" THEN <<>>
    ELSE LET totalAmount == OrNum(answer.totalAmount, 0)
             rawItems == Array([i \in 1..Len(answer.lineItems) |->
                            [ itemName    |-> OrStr(answer.lineItems[i].description, Unknown_Item),
                              category    |-> Cat_Other,
                              quantity    |-> OrNum(answer.lineItems[i].quantity, 1),
                              unitPrice   |-> OrNum(answer.lineItems[i].unitPrice, 0),
                              totalBilled |-> OrNum(answer.lineItems[i].totalAmount, 0) ]])
             cleanedItems == cleanParsedItems(rawItems, totalAmount)
         IN  << [ hospitalName |-> OrStr(answer.supplierName, Unknown_Hospital),
                  billDate     |-> IF answer.date = "missing" THEN "valid" ELSE answer.date,
                  totalAmount  |-> totalAmount,
                  items        |-> cleanedItems,
                  confidence   |-> IF Len(cleanedItems) > 0 THEN 90 ELSE 70 ] >>

\* parseWithGeminiAI and parseTextWithGemini after their client check
parseWithGemini(answer) ==
    IF answer.kind # "json" THEN <<>> ELSE <<validateAndFixBill(answer)>>

performOcr(answer) ==
    IF answer.kind = "parsed"
    THEN [success |-> TRUE, text |-> answer.text, confidence |-> 85]
    ELSE [success |-> FALSE, text |-> <<>>, confidence |-> 0]

\* ------------------------------------------------------------------------
\* What the adapters, the validator, the regex parser and the price
\* comparison return for each of the inputs above, computed once
\* ------------------------------------------------------------------------
mindeeResults == [answer \in MindeeAnswers |-> parseWithMindee(answer)] @@ <<>>

geminiResults == [answer \in GeminiAnswers |-> parseWithGemini(answer)] @@ <<>>

ocrResults == [answer \in OcrAnswers |-> performOcr(answer)] @@ <<>>

validations == [text \in OcrTexts \cup {<<>>} |-> validateMedicalBill(text)] @@ <<>>

regexResults == [text \in OcrTexts \cup {<<>>, MOCK_TEXT_LINES} |-> parseBillText(text)] @@ <<>>

\* every item a tier can return
ExtractedItems ==
    UNION ( {Range(mindeeResults[a][1].items) : a \in {x \in MindeeAnswers : mindeeResults[x] # <<>>}}
            \cup {Range(geminiResults[a][1].items) :
                      a \in {x \in GeminiAnswers : geminiResults[x] # <<>>}}
            \cup {Range(regexResults[t].items) : t \in DOMAIN regexResults} )

comparisonResultOf == [item \in ExtractedItems |-> compareItem(item, priceDatabase)] @@ <<>>

\* ------------------------------------------------------------------------
\* POST /api/analyze
\* ------------------------------------------------------------------------
VARIABLES
    mindeeAvailable,  \* isMindeeAvailable(): a Mindee API key is configured
    geminiAvailable,  \* isGeminiAvailable(): a Gemini API key is configured
    pc,               \* where the handler stands: idle, awaiting a backend, done
    reqFile,          \* req.file is present
    reqUser,          \* req.user: <<>> or <<user id>>
    parsedItems, parsingMethod, hospitalName, billDate, ocrConfidence,
    ocrText,          \* ocrResult.text of the request
    calls,            \* the tiers invoked so far, in order, with what each yielded
    hung,             \* the awaited backend call will never settle
    response,         \* <<>> or <<the response sent>>
    analyses,         \* the stored analyses
    generated,        \* how many ids generateId() has returned
    cmpItem,          \* argument of a stand-alone comparePrices call
    cmpResult,        \* <<>> or <<its result>>
    cmpItems,         \* the item list of a comparePrices call on a catalog of its own
    cmpCatalog,       \* the catalog passed to it
    cmpResults,       \* <<>> or <<the result list>>
    cmpSummary,       \* <<>> or <<calculateSummary of the result list>>
    valText,          \* the text of a stand-alone validateMedicalBill call
    valResult,        \* <<>> or <<its result>>
    catalog,          \* the module-level priceDatabase array
    refInfo,          \* <<>> or <<the last response of GET /api/reference-info>>
    suspended,        \* the invocations of the handler waiting at an await, not running
    parseText,        \* the text of a stand-alone parseBillText call
    parseCalls,       \* how many times it was parsed
    parseResult,      \* <<>> or <<the items of the latest call>>
    parseCursor,      \* currentCategory as the loop of the latest call left it
    users,            \* the users map, in insertion order
    sessions,         \* the sessions map: session id -> user id
    pendingAuth,      \* the bag of register and login invocations waiting for bcrypt
    authRequest,      \* <<>> or <<the request the auth or history route that ran last is serving>>
    authResponse      \* <<>> or <<the last response of an auth or history route>>

analyzeVars == << mindeeAvailable, geminiAvailable, pc, reqFile, reqUser, parsedItems,
                  parsingMethod, hospitalName, billDate, ocrConfidence, ocrText, calls, hung,
                  response, analyses, generated >>

cmpVars == << cmpItem, cmpResult, cmpItems, cmpCatalog, cmpResults, cmpSummary, valText,
             valResult >>

\* what lies outside the running invocation of the analyze handler
parseVars == << parseText, parseCalls, parseResult, parseCursor >>

authVars == << users, sessions, pendingAuth, authRequest, authResponse >>

outerVars == << catalog, refInfo, suspended, parseVars, authVars >>

vars == << analyzeVars, cmpVars, outerVars >>

Users == {"u1"}

Awaiting == {"await_mindee", "await_vision", "await_ocr", "await_text"}

\* the locals of the handler as declared at its top, no request received
AnalyzeIdle ==
    /\ pc = "idle"
    /\ reqFile = FALSE
    /\ reqUser = <<>>
    /\ parsedItems = <<>>
    /\ parsingMethod = "regex"
    /\ hospitalName = Unknown_Hospital
    /\ billDate = "valid"
    /\ ocrConfidence = 80
    /\ ocrText = <<>>
    /\ calls = <<>>
    /\ hung = FALSE
    /\ response = <<>>
    /\ analyses = {}
    /\ generated = 0

NoItemToCompare == [itemName |-> <<>>, category |-> <<>>, quantity |-> 1, unitPrice |-> 0,
                    totalBilled |-> 0]

\* no stand-alone call of comparePrices on a list
NoListToCompare ==
    /\ cmpItems = <<>>
    /\ cmpCatalog = <<>>
    /\ cmpResults = <<>>
    /\ cmpSummary = <<>>
    /\ valText = <<>>
    /\ valResult = <<>>

\* no stand-alone call of parseBillText
NoTextToParse ==
    /\ parseText = <<>>
    /\ parseCalls = 0
    /\ parseResult = <<>>
    /\ parseCursor = Cat_Other

\* the users and sessions maps as declared: empty
NoAccounts ==
    /\ users = <<>>
    /\ sessions = {}
    /\ pendingAuth = EmptyBag
    /\ authRequest = <<>>
    /\ authResponse = <<>>

\* the module as loaded: the catalog built from the seed data, no request yet
ModuleLoaded ==
    /\ catalog = priceDatabase
    /\ refInfo = <<>>
    /\ suspended = <<>>
    /\ NoTextToParse
    /\ NoAccounts

Init ==
    /\ mindeeAvailable \in BOOLEAN
    /\ geminiAvailable \in BOOLEAN
    /\ AnalyzeIdle
    /\ cmpItem = NoItemToCompare
    /\ cmpResult = <<>>
    /\ NoListToCompare
    /\ ModuleLoaded

\* an entry of calls: the tier, how its call settled ("failed": no result,
\* "empty": a result that cannot be used, "items", "done", "accepted",
\* "rejected"), and the items, hospital name and grand total it returned
Invoked(tier) ==
    [tier |-> tier, status |-> "pending", items |-> <<>>, hospitalName |-> <<>>,
     totalAmount |-> <<>>]

Settled(tier, status, items, hosp, total) ==
    [tier |-> tier, status |-> status, items |-> items, hospitalName |-> hosp,
     totalAmount |-> total]

\* the awaited call, the last of calls, has settled
Settle(status, items, hosp, total) ==
    [calls EXCEPT ![Len(calls)] = Settled(calls[Len(calls)].tier, status, items, hosp, total)]

\* it settled with null, or with a result without items
SettleEmpty(result) ==
    Settle(IF result = <<>> THEN "failed" ELSE "empty", <<>>, <<>>, <<>>)

\* the handler awaits the call of a backend
Await(tier, log) ==
    /\ pc' = tier
    /\ calls' = Append(log, Invoked(tier))
    /\ UNCHANGED <<response, analyses, generated>>

SetExtraction(items, method, hosp, date, confidence) ==
    /\ parsedItems' = items
    /\ parsingMethod' = method
    /\ hospitalName' = hosp
    /\ billDate' = date
    /\ ocrConfidence' = confidence

KeepExtraction ==
    UNCHANGED <<parsedItems, parsingMethod, hospitalName, billDate, ocrConfidence>>

\* result && result.items.length > 0
Usable(result) == result # <<>> /\ Len(result[1].items) > 0

\* the next tier is tried whatever the items
Escalates_Always(items) == Len(items) >= 0

\* parsedItems.length === 0: the next tier is tried
Escalates(items) == Len(items) = 0

\* the failure of the OCR is not looked at
OcrFailed_Never(ocrResult) == ocrResult.success /\ ~ocrResult.success

\* !ocrResult.success: the request ends with ocr_failed
OcrFailed(ocrResult) == ~ocrResult.success

\* the verdict of the validator is not looked at
Rejected_Never(validation) == validation.isMedicalBill /\ ~validation.isMedicalBill

\* !validation.isMedicalBill: the request ends with not_medical_bill
Rejected(validation) == ~validation.isMedicalBill

\* an early return with status 400
Reject(error, message, confidence, log) ==
    /\ pc' = "done"
    /\ calls' = log
    /\ response' = << [status |-> 400, error |-> error, message |-> message,
                       confidence |-> confidence] >>
    /\ UNCHANGED <<analyses, generated>>

\* the response names the parsingMethod the handler held before this tier
Finish_StaleMethod(user, items, method, hosp, date, confidence, log) ==
    LET comparisonResults == Array([i \in 1..Len(items) |-> comparisonResultOf[items[i]]])
        analysis == [id |-> generated + 1, userId |-> user[1],
                     hospitalName |-> hosp, items |-> comparisonResults]
    IN  /\ pc' = "done"
        /\ calls' = Append(log, Settled("comparePrices", "done", <<>>, <<>>, <<>>))
        /\ generated' = generated + 1
        /\ analyses' = IF user # <<>> THEN analyses \cup {analysis} ELSE analyses
        /\ response' = IF date = "invalid"
                       THEN << [status |-> 500, error |-> "Failed to analyze bill"] >>
                       ELSE << [status |-> 200, hospitalName |-> hosp, items |-> comparisonResults,
                                ocrConfidence |-> confidence, parsingMethod |-> parsingMethod] >>

\* comparePrices to res.json: the analysis is stored for a signed-in user
\* and the response is built; billDate.toISOString() throws on an invalid
\* date, which the catch of the handler answers with status 500
Finish(user, items, method, hosp, date, confidence, log) ==
    LET comparisonResults == Array([i \in 1..Len(items) |-> comparisonResultOf[items[i]]])
        analysis == [id |-> generated + 1, userId |-> user[1],
                     hospitalName |-> hosp, items |-> comparisonResults]
    IN  /\ pc' = "done"
        /\ calls' = Append(log, Settled("comparePrices", "done", <<>>, <<>>, <<>>))
        /\ generated' = generated + 1
        /\ analyses' = IF user # <<>> THEN analyses \cup {analysis} ELSE analyses
        /\ response' = IF date = "invalid"
                       THEN << [status |-> 500, error |-> "Failed to analyze bill"] >>
                       ELSE << [status |-> 200, hospitalName |-> hosp, items |-> comparisonResults,
                                ocrConfidence |-> confidence, parsingMethod |-> method] >>

\* an empty result of the regex parser ends the request with an error
RegexFinish_RejectEmpty(user, text, method, defaultHospital, confidence, log) ==
    \E regexParsed \in {regexResults[text]} :
    LET hosp == OrStr(regexParsed.hospitalName, defaultHospital)
        regexLog == Append(log, Settled("regex", "done", regexParsed.items, hosp, <<>>))
    IN  /\ SetExtraction(regexParsed.items, method, hosp, regexParsed.billDate, confidence)
        /\ IF regexParsed.items = <<>>
           THEN Reject("no_items", <<"No billable items found.">>, 0, regexLog)
           ELSE Finish(user, regexParsed.items, method, hosp, regexParsed.billDate, confidence,
                       regexLog)

\* PRIORITY 5 and the demo branch: parseBillText, then the common tail
RegexFinish(user, text, method, defaultHospital, confidence, log) ==
    \E regexParsed \in {regexResults[text]} :
    LET hosp == OrStr(regexParsed.hospitalName, defaultHospital)
    IN  /\ SetExtraction(regexParsed.items, method, hosp, regexParsed.billDate, confidence)
        /\ Finish(user, regexParsed.items, method, hosp, regexParsed.billDate, confidence,
                  Append(log, Settled("regex", "done", regexParsed.items, hosp, <<>>)))

\* without a file the handler runs the OCR as well
ReceiveRequest_DemoOcr(file, user) ==
    /\ pc = "idle"
    /\ reqFile' = file
    /\ reqUser' = user
    /\ UNCHANGED <<mindeeAvailable, geminiAvailable, ocrText, hung, cmpVars, outerVars>>
    /\ KeepExtraction
    /\ Await(IF file /\ mindeeAvailable THEN "await_mindee"
             ELSE IF file /\ Escalates(parsedItems) /\ geminiAvailable THEN "await_vision"
             ELSE "await_ocr", calls)

\* the request arrives: the code up to the first await, or the whole demo branch
ReceiveRequest(file, user) ==
    /\ pc = "idle"
    /\ reqFile' = file
    /\ reqUser' = user
    /\ UNCHANGED <<mindeeAvailable, geminiAvailable, ocrText, hung, cmpVars, outerVars>>
    /\ IF file
       THEN /\ KeepExtraction
            /\ Await(IF mindeeAvailable THEN "await_mindee"
                     ELSE IF Escalates(parsedItems) /\ geminiAvailable THEN "await_vision"
                     ELSE "await_ocr", calls)
       ELSE RegexFinish(user, MOCK_TEXT_LINES, "demo-mock", City_General_Hospital, 90, calls)

\* the extraction the handler holds, with the log, after a tier settled
\* with a result it uses
Taken(r, method, log) ==
    [items |-> r.items, method |-> method, hosp |-> r.hospitalName, date |-> r.billDate,
     confidence |-> r.confidence, log |-> log]

\* the same after a tier whose result it does not use
Held(log) ==
    [items |-> parsedItems, method |-> parsingMethod, hosp |-> hospitalName, date |-> billDate,
     confidence |-> ocrConfidence, log |-> log]

AfterTier(result, method) ==
    IF Usable(result)
    THEN Taken(result[1], method,
               Settle("items", result[1].items, result[1].hospitalName, <<result[1].totalAmount>>))
    ELSE Held(SettleEmpty(result))

\* PRIORITY 1: parseWithMindee settles
MindeeReturns(answer) ==
    /\ pc = "await_mindee" /\ ~hung
    /\ UNCHANGED <<mindeeAvailable, geminiAvailable, reqFile, reqUser, ocrText, hung, cmpVars, outerVars>>
    /\ \E x \in {AfterTier(mindeeResults[answer], "mindee")} :
          /\ SetExtraction(x.items, x.method, x.hosp, x.date, x.confidence)
          /\ IF Escalates(x.items) /\ geminiAvailable THEN Await("await_vision", x.log)
             ELSE IF Escalates(x.items) THEN Await("await_ocr", x.log)
             ELSE Finish(reqUser, x.items, x.method, x.hosp, x.date, x.confidence, x.log)

\* PRIORITY 2: parseWithGeminiAI settles
VisionReturns(answer) ==
    /\ pc = "await_vision" /\ ~hung
    /\ UNCHANGED <<mindeeAvailable, geminiAvailable, reqFile, reqUser, ocrText, hung, cmpVars, outerVars>>
    /\ \E x \in {AfterTier(geminiResults[answer], "gemini-vision")} :
          /\ SetExtraction(x.items, x.method, x.hosp, x.date, x.confidence)
          /\ IF Escalates(x.items) THEN Await("await_ocr", x.log)
             ELSE Finish(reqUser, x.items, x.method, x.hosp, x.date, x.confidence, x.log)

\* the log after performOcr and, when it ran, the validator
OcrLog(ocrResult) == Settle(IF ocrResult.success THEN "done" ELSE "failed", <<>>, <<>>, <<>>)

ValidatedLog(ocrResult, validation) ==
    Append(OcrLog(ocrResult),
           Settled("validator", IF validation.isMedicalBill THEN "accepted" ELSE "rejected",
                   <<>>, <<>>, <<>>))

\* PRIORITY 3: performOcr settles; the validator, and the regex parser when
\* no Gemini key is configured, run in the same turn
OcrReturns(answer) ==
    /\ pc = "await_ocr" /\ ~hung
    /\ UNCHANGED <<mindeeAvailable, geminiAvailable, reqFile, reqUser, hung, cmpVars, outerVars>>
    /\ \E ocrResult \in {ocrResults[answer]} :
       IF OcrFailed(ocrResult)
       THEN /\ KeepExtraction
            /\ ocrText' = ocrText
            /\ Reject("ocr_failed",
                      <<"Could not read the uploaded image. Please try a clearer photo.">>,
                      0, OcrLog(ocrResult))
       ELSE \E validation \in {validations[ocrResult.text]} :
            \E log \in {ValidatedLog(ocrResult, validation)} :
                /\ ocrText' = ocrResult.text
                /\ IF Rejected(validation)
                   THEN /\ UNCHANGED <<parsedItems, parsingMethod, hospitalName, billDate>>
                        /\ ocrConfidence' = ocrResult.confidence
                        /\ Reject("not_medical_bill", OrStr(validation.reason, <<Reason_Default>>),
                                  validation.confidence, log)
                   ELSE IF geminiAvailable
                   THEN /\ UNCHANGED <<parsedItems, parsingMethod, hospitalName, billDate>>
                        /\ ocrConfidence' = ocrResult.confidence
                        /\ Await("await_text", log)
                   ELSE IF Escalates(parsedItems)
                   THEN RegexFinish(reqUser, ocrResult.text, "ocr-regex", Unknown_Hospital,
                                    ocrResult.confidence, log)
                   ELSE /\ UNCHANGED <<parsedItems, parsingMethod, hospitalName, billDate>>
                        /\ ocrConfidence' = ocrResult.confidence
                        /\ Finish(reqUser, parsedItems, parsingMethod, hospitalName, billDate,
                                  ocrResult.confidence, log)

\* PRIORITY 4: parseTextWithGemini settles; PRIORITY 5 follows in the same
\* turn when it yielded nothing
TextReturns(answer) ==
    /\ pc = "await_text" /\ ~hung
    /\ UNCHANGED <<mindeeAvailable, geminiAvailable, reqFile, reqUser, ocrText, hung, cmpVars, outerVars>>
    /\ \E x \in {AfterTier(geminiResults[answer], "gemini-text")} :
          IF Escalates(x.items)
          THEN RegexFinish(reqUser, ocrText, "ocr-regex", Unknown_Hospital, x.confidence, x.log)
          ELSE /\ SetExtraction(x.items, x.method, x.hosp, x.date, x.confidence)
               /\ Finish(reqUser, x.items, x.method, x.hosp, x.date, x.confidence, x.log)

\* the awaited backend never answers: the promise the handler awaits stays pending
BackendHangs ==
    /\ pc \in Awaiting /\ ~hung
    /\ hung' = TRUE
    /\ UNCHANGED << mindeeAvailable, geminiAvailable, pc, reqFile, reqUser, parsedItems,
                    parsingMethod, hospitalName, billDate, ocrConfidence, ocrText, calls,
                    response, analyses, generated, cmpVars, outerVars >>

\* the latest publication date among the entries of a source
LatestDate(entries, source) ==
    CHOOSE d \in {entries[k].publishedDate : k \in {j \in DOMAIN entries : entries[j].source = source}} :
        \A k \in DOMAIN entries : entries[k].source = source => entries[k].publishedDate <= d

\* the body of the response: per source its number of entries and its
\* latest publication date, and the number of entries
ReferenceInfo(entries) ==
    [ sources |-> { [name |-> source,
                     itemCount |-> Cardinality({k \in DOMAIN entries : entries[k].source = source}),
                     publishedDate |-> LatestDate(entries, source)] :
                    source \in {entries[k].source : k \in DOMAIN entries} },
      totalItems |-> Len(entries) ]

\* the entries are sorted in place, latest first, to find the latest date
ScannedCatalog_Sorted(entries) ==
    Array([k \in DOMAIN entries |-> entries[Len(entries) + 1 - k]])

\* the catalog after the loop over it: the loop only reads
ScannedCatalog(entries) == entries

\* GET /api/reference-info
GetReferenceInfo ==
    /\ refInfo' = << ReferenceInfo(catalog) >>
    /\ catalog' = ScannedCatalog(catalog)
    /\ UNCHANGED <<analyzeVars, cmpVars, suspended, parseVars, authVars>>

Next ==
    \/ \E file \in BOOLEAN, user \in {<<>>} \cup {<<u>> : u \in Users} : ReceiveRequest(file, user)
    \/ \E answer \in MindeeAnswers : MindeeReturns(answer)
    \/ \E answer \in GeminiAnswers : VisionReturns(answer)
    \/ \E answer \in OcrAnswers : OcrReturns(answer)
    \/ \E answer \in GeminiAnswers : TextReturns(answer)
    \/ BackendHangs
    \/ GetReferenceInfo

Spec == Init /\ [][Next]_vars

\* the event loop runs every turn that is ready; a backend call that hangs
\* never makes one ready
FairSpec == Spec /\ WF_vars(Next)


\* ------------------------------------------------------------------------
\* Two invocations of the handler.  An invocation runs until its next
\* await; there the event loop may run the other one.  The locals of the
\* handler and its res object belong to an invocation; the configuration,
\* the analyses map and the catalog belong to the module.
\* ------------------------------------------------------------------------
Locals(at, file, user, items, method, hosp, date, confidence, text, log, stuck, sent) ==
    [ pc |-> at, reqFile |-> file, reqUser |-> user, parsedItems |-> items,
      parsingMethod |-> method, hospitalName |-> hosp, billDate |-> date,
      ocrConfidence |-> confidence, ocrText |-> text, calls |-> log, hung |-> stuck,
      response |-> sent ]

RunningLocals ==
    Locals(pc, reqFile, reqUser, parsedItems, parsingMethod, hospitalName, billDate,
           ocrConfidence, ocrText, calls, hung, response)

\* the locals as declared at the top of the handler
IdleLocals ==
    Locals("idle", FALSE, <<>>, <<>>, "regex", Unknown_Hospital, "valid", 80, <<>>, <<>>, FALSE,
           <<>>)

\* the running invocation takes over the locals l
Resume(l) ==
    /\ pc' = l.pc
    /\ reqFile' = l.reqFile
    /\ reqUser' = l.reqUser
    /\ parsedItems' = l.parsedItems
    /\ parsingMethod' = l.parsingMethod
    /\ hospitalName' = l.hospitalName
    /\ billDate' = l.billDate
    /\ ocrConfidence' = l.ocrConfidence
    /\ ocrText' = l.ocrText
    /\ calls' = l.calls
    /\ hung' = l.hung
    /\ response' = l.response

\* parsedItems is one variable of the module, shared by the invocations
Switch_SharedItems ==
    /\ suspended # <<>>
    /\ suspended' = << RunningLocals >>
    /\ Resume([suspended[1] EXCEPT !.parsedItems = parsedItems])
    /\ UNCHANGED <<mindeeAvailable, geminiAvailable, analyses, generated, cmpVars, catalog,
                   refInfo, parseVars, authVars>>

\* the event loop leaves the invocation that reached an await, or its end,
\* and runs the other one
Switch ==
    /\ suspended # <<>>
    /\ suspended' = << RunningLocals >>
    /\ Resume(suspended[1])
    /\ UNCHANGED <<mindeeAvailable, geminiAvailable, analyses, generated, cmpVars, catalog,
                   refInfo, parseVars, authVars>>

\* a few answers of each backend
FewMindeeAnswers ==
    { a \in MindeeAnswers :
        \/ a.kind = "throws"
        \/ /\ a.kind = "prediction" /\ a.date = "valid" /\ Len(a.lineItems) = 1
           /\ a.lineItems[1].quantity = 2 }

FewGeminiAnswers ==
    { a \in GeminiAnswers :
        \/ a.kind = "throws"
        \/ /\ a.kind = "json" /\ a.billDate = "valid" /\ Len(a.items) = 1
           /\ a.items[1].unitPrice = 272 }

FewOcrAnswers ==
    { a \in OcrAnswers : a.kind = "throws" \/ a.text \in {TEXT_PHARMACY_LINES, TEXT_GROCERY_LINES} }

ConcurrentInit ==
    /\ mindeeAvailable \in BOOLEAN
    /\ geminiAvailable \in BOOLEAN
    /\ AnalyzeIdle
    /\ cmpItem = NoItemToCompare
    /\ cmpResult = <<>>
    /\ NoListToCompare
    /\ catalog = priceDatabase
    /\ refInfo = <<>>
    /\ suspended = << IdleLocals >>
    /\ NoTextToParse
    /\ NoAccounts

ConcurrentNext ==
    \/ \E file \in BOOLEAN, user \in {<<>>} \cup {<<u>> : u \in Users} : ReceiveRequest(file, user)
    \/ \E answer \in FewMindeeAnswers : MindeeReturns(answer)
    \/ \E answer \in FewGeminiAnswers : VisionReturns(answer)
    \/ \E answer \in FewOcrAnswers : OcrReturns(answer)
    \/ \E answer \in FewGeminiAnswers : TextReturns(answer)
    \/ BackendHangs
    \/ Switch

SpecConcurrent == ConcurrentInit /\ [][ConcurrentNext]_vars

\* ---------------------------------------------------------------------
\* Accounts, sessions and the history routes
\* ---------------------------------------------------------------------

MaxIds == 4          \* how many ids generateId() hands out in a run
MaxPending == 2      \* register and login invocations waiting for bcrypt at once
MaxHistoryIds == 6   \* the same, in a run of the analyze and history routes

Email_A == <<"a","@","x",".","i","o">>
Email_B == <<"b","@","x",".","i","o">>
Email_NoDot == <<"a","@","x">>
Password_Strong == <<"P","a","s","s","w","0","r","d">>
Password_Other == <<"H","u","n","t","e","r","2","2">>
Password_NoDigit == <<"P","a","s","s","w","o","r","d">>
Name_User == <<"N">>

RegisterEmails == {<<>>, Email_A, Email_B, Email_NoDot}
RegisterPasswords == {<<>>, Password_Strong, Password_NoDigit}
RegisterNames == {<<>>, Name_User}
LoginEmails == {<<>>, Email_A, Email_B}
LoginPasswords == {<<>>, Password_Strong, Password_Other}

\* the x-session-id header of a request: 0 stands for a request without
\* it, the others are the ids handed out so far
SessionHeaders == 0..generated

\* the headers of the requests to the analyze and history routes after the
\* two registrations: none, an id that is no session, and the two sessions
HistoryHeaders == {0, 1, 2, 4}

\* the :id of a history route: an id that is no analysis, and the ids
\* handed out after the two registrations
AnalysisIds == {1} \cup {id \in 1..generated : id > 4}

WhitespaceOrAt == {" ", "@"}

\* /^[^\s@]+@[^\s@]+\.[^\s@]+$/
isValidEmail(email) ==
    \E at \in 2..Len(email) :
        /\ email[at] = "@"
        /\ \A i \in (1..Len(email)) \ {at} : email[i] \notin WhitespaceOrAt
        /\ \E dot \in (at + 2)..(Len(email) - 1) : email[dot] = "."

Password_Valid == [valid |-> TRUE, message |-> ""]

Password_Invalid(message) == [valid |-> FALSE, message |-> message]

isValidPassword(password) ==
    IF Len(password) < 8
    THEN Password_Invalid("Password must be at least 8 characters")
    ELSE IF \A i \in DOMAIN password : password[i] \notin UpperSet
    THEN Password_Invalid("Password must contain at least one uppercase letter")
    ELSE IF \A i \in DOMAIN password : password[i] \notin LowerSet
    THEN Password_Invalid("Password must contain at least one lowercase letter")
    ELSE IF \A i \in DOMAIN password : password[i] \notin Digits
    THEN Password_Invalid("Password must contain at least one number")
    ELSE Password_Valid

\* bcrypt: the hash of a password is not the password, and compare accepts
\* exactly the password the hash was made from
hashPassword(password) == [bcrypt |-> password]

verifyPassword(password, hash) == hash = hashPassword(password)

\* Array.from(users.values()).find(u => u.email === email): <<>> or <<the
\* first user, in insertion order, with the email>>
FindByEmail(all, email) ==
    IF \E i \in DOMAIN all : all[i].email = email
    THEN << all[CHOOSE i \in DOMAIN all :
                   /\ all[i].email = email
                   /\ \A j \in 1..(i - 1) : all[j].email # email] >>
    ELSE <<>>

\* sessions.has(sessionId) of a request that carries the header
isAuthenticated(sid) == sid # 0 /\ \E s \in sessions : s.sid = sid

\* req.user of an authenticated request: users.get(sessions.get(sessionId))
RequestUser(sid) ==
    LET userId == (CHOOSE s \in sessions : s.sid = sid).userId
    IN  CHOOSE u \in Range(users) : u.id = userId

\* a response of an auth or history route: the route, the status, the
\* error message, and of the body the user id, the session id and the ids
\* of the analyses it carries
Responded(route, status, error, userId, sessionId, body) ==
    [route |-> route, status |-> status, error |-> error,
     userId |-> userId, sessionId |-> sessionId, body |-> body]

\* a request as the route sees it: the route, the x-session-id header and
\* the :id of the path, 0 where the request has none
Requested(route, sid, id) == << [route |-> route, sid |-> sid, id |-> id] >>

Failed(route, status, error) ==
    << Responded(route, status, error, 0, 0, {}) >>

\* an invocation waiting at its await: the route, the body of its request
\* and, for a login, the user found
Waiting(route, email, password, name, user) ==
    [route |-> route, email |-> email, password |-> password, name |-> name, user |-> user]

handlerVars == << mindeeAvailable, geminiAvailable, pc, reqFile, reqUser, parsedItems,
                  parsingMethod, hospitalName, billDate, ocrConfidence, ocrText, calls, hung,
                  response >>

restVars == << handlerVars, cmpVars, catalog, refInfo, suspended, parseVars >>

\* POST /api/auth/register up to the await of hashPassword
RegisterRequest(email, password, name) ==
    /\ authRequest' = Requested("register", 0, 0)
    /\ UNCHANGED <<restVars, analyses, generated, users, sessions>>
    /\ IF email = <<>> \/ password = <<>> \/ name = <<>>
       THEN /\ authResponse' = Failed("register", 400, "Email, password, and name are required")
            /\ UNCHANGED pendingAuth
       ELSE IF ~isValidEmail(email)
       THEN /\ authResponse' = Failed("register", 400, "Invalid email format")
            /\ UNCHANGED pendingAuth
       ELSE IF ~isValidPassword(password).valid
       THEN /\ authResponse' = Failed("register", 400, isValidPassword(password).message)
            /\ UNCHANGED pendingAuth
       ELSE IF FindByEmail(users, email) # <<>>
       THEN /\ authResponse' = Failed("register", 400, "Email already registered")
            /\ UNCHANGED pendingAuth
       ELSE /\ BagCardinality(pendingAuth) < MaxPending
            /\ pendingAuth' = pendingAuth (+) SetToBag({Waiting("register", email, password, name, <<>>)})
            /\ UNCHANGED authResponse

\* hashPassword settles and the registration runs to its response: with the
\* hash it creates the user and a session, on a rejection it answers 500
RegisterResumes(waiting, hashed) ==
    /\ authRequest' = Requested("register", 0, 0)
    /\ BagIn(waiting, pendingAuth)
    /\ waiting.route = "register"
    /\ pendingAuth' = pendingAuth (-) SetToBag({waiting})
    /\ UNCHANGED <<restVars, analyses>>
    /\ IF hashed
       THEN LET user == [id |-> generated + 1, email |-> waiting.email,
                         password |-> hashPassword(waiting.password),
                         name |-> waiting.name]
                sessionId == generated + 2
            IN  /\ generated + 2 <= MaxIds
                /\ generated' = generated + 2
                /\ users' = Append(users, user)
                /\ sessions' = sessions \cup {[sid |-> sessionId, userId |-> user.id]}
                /\ authResponse' = << Responded("register", 200, "", user.id, sessionId, {}) >>
       ELSE /\ authResponse' = Failed("register", 500, "Registration failed")
            /\ UNCHANGED <<generated, users, sessions>>

\* POST /api/auth/login up to the await of verifyPassword
LoginRequest(email, password) ==
    /\ authRequest' = Requested("login", 0, 0)
    /\ UNCHANGED <<restVars, analyses, generated, users, sessions>>
    /\ IF email = <<>> \/ password = <<>>
       THEN /\ authResponse' = Failed("login", 400, "Email and password are required")
            /\ UNCHANGED pendingAuth
       ELSE IF FindByEmail(users, email) = <<>>
       THEN /\ authResponse' = Failed("login", 401, "Invalid email or password")
            /\ UNCHANGED pendingAuth
       ELSE /\ BagCardinality(pendingAuth) < MaxPending
            /\ pendingAuth' = pendingAuth (+) SetToBag({Waiting("login", email, password, <<>>, FindByEmail(users, email))})
            /\ UNCHANGED authResponse

\* whether the login may create its session: the password verified
LoginAccepted(password, user) == verifyPassword(password, user.password)

\* verifyPassword settles and the login runs to its response
LoginResumes(waiting, compared) ==
    /\ authRequest' = Requested("login", 0, 0)
    /\ BagIn(waiting, pendingAuth)
    /\ waiting.route = "login"
    /\ pendingAuth' = pendingAuth (-) SetToBag({waiting})
    /\ UNCHANGED <<restVars, analyses, users>>
    /\ IF ~compared
       THEN /\ authResponse' = Failed("login", 500, "Login failed")
            /\ UNCHANGED <<generated, sessions>>
       ELSE IF ~LoginAccepted(waiting.password, waiting.user[1])
       THEN /\ authResponse' = Failed("login", 401, "Invalid email or password")
            /\ UNCHANGED <<generated, sessions>>
       ELSE LET user == waiting.user[1]
                sessionId == generated + 1
            IN  /\ generated + 1 <= MaxIds
                /\ generated' = generated + 1
                /\ sessions' = sessions \cup {[sid |-> sessionId, userId |-> user.id]}
                /\ authResponse' = << Responded("login", 200, "", user.id, sessionId, {}) >>

\* a logout that ends every session of the user who owns the named one
SessionsAfterLogout_AllOfUser(all, sid) ==
    {s \in all : \A t \in all : t.sid = sid => s.userId # t.userId}

\* the sessions map after sessions.delete(sid)
SessionsAfterLogout(all, sid) == {s \in all : s.sid # sid}

\* POST /api/auth/logout
Logout(sid) ==
    /\ authRequest' = Requested("logout", sid, 0)
    /\ sessions' = IF sid # 0 THEN SessionsAfterLogout(sessions, sid) ELSE sessions
    /\ authResponse' = << Responded("logout", 200, "", 0, 0, {}) >>
    /\ UNCHANGED <<restVars, analyses, generated, users, pendingAuth>>

\* GET /api/auth/me
GetMe(sid) ==
    /\ authRequest' = Requested("me", sid, 0)
    /\ authResponse' = IF ~isAuthenticated(sid)
                       THEN Failed("me", 401, "Not authenticated")
                       ELSE << Responded("me", 200, "", RequestUser(sid).id, 0, {}) >>
    /\ UNCHANGED <<restVars, analyses, generated, users, sessions, pendingAuth>>

\* history routes that let every authenticated user at every analysis
Owns_Anyone(user, analysis) == TRUE

\* whether the history routes let the user at the analysis
Owns(user, analysis) == analysis.userId = user.id

\* GET /api/history
GetHistory(sid) ==
    /\ authRequest' = Requested("history", sid, 0)
    /\ authResponse' =
          IF ~isAuthenticated(sid)
          THEN Failed("history", 401, "Authentication required")
          ELSE << Responded("history", 200, "", 0, 0,
                            {a.id : a \in {b \in analyses : Owns(RequestUser(sid), b)}}) >>
    /\ UNCHANGED <<restVars, analyses, generated, users, sessions, pendingAuth>>

\* analyses.get(id): <<>> or <<the analysis>>
GetAnalysis(id) ==
    IF \E a \in analyses : a.id = id THEN << CHOOSE a \in analyses : a.id = id >> ELSE <<>>

\* GET /api/history/:id
GetHistoryItem(sid, id) ==
    /\ authRequest' = Requested("history-item", sid, id)
    /\ authResponse' =
          IF ~isAuthenticated(sid)
          THEN Failed("history-item", 401, "Authentication required")
          ELSE IF GetAnalysis(id) = <<>> \/ ~Owns(RequestUser(sid), GetAnalysis(id)[1])
          THEN Failed("history-item", 404, "Analysis not found")
          ELSE << Responded("history-item", 200, "", 0, 0, {id}) >>
    /\ UNCHANGED <<restVars, analyses, generated, users, sessions, pendingAuth>>

\* DELETE /api/history/:id
DeleteHistoryItem(sid, id) ==
    /\ authRequest' = Requested("history-delete", sid, id)
    /\ UNCHANGED <<restVars, generated, users, sessions, pendingAuth>>
    /\ IF ~isAuthenticated(sid)
       THEN /\ authResponse' = Failed("history-delete", 401, "Authentication required")
            /\ UNCHANGED analyses
       ELSE IF GetAnalysis(id) = <<>> \/ ~Owns(RequestUser(sid), GetAnalysis(id)[1])
       THEN /\ authResponse' = Failed("history-delete", 404, "Analysis not found")
            /\ UNCHANGED analyses
       ELSE /\ analyses' = analyses \ {GetAnalysis(id)[1]}
            /\ authResponse' = << Responded("history-delete", 200, "", 0, 0, {}) >>

\* POST /api/analyze in demo mode, by a request with the session header sid:
\* the session middleware sets req.user, the handler runs to its response
AnalyzeAs(sid) ==
    /\ generated < MaxHistoryIds
    /\ ReceiveRequest(FALSE, IF isAuthenticated(sid) THEN << RequestUser(sid).id >> ELSE <<>>)

\* the invocation of the analyze handler is over; the next request starts
\* with the locals as declared
HandlerReturns ==
    /\ pc = "done"
    /\ Resume(IdleLocals)
    /\ UNCHANGED <<mindeeAvailable, geminiAvailable, analyses, generated, cmpVars, outerVars>>

AuthInit ==
    /\ mindeeAvailable = FALSE
    /\ geminiAvailable = FALSE
    /\ AnalyzeIdle
    /\ cmpItem = NoItemToCompare
    /\ cmpResult = <<>>
    /\ NoListToCompare
    /\ ModuleLoaded

AuthNext ==
    \/ \E email \in RegisterEmails, password \in RegisterPasswords, name \in RegisterNames :
          RegisterRequest(email, password, name)
    \/ \E waiting \in BagToSet(pendingAuth), hashed \in BOOLEAN : RegisterResumes(waiting, hashed)
    \/ \E email \in LoginEmails, password \in LoginPasswords : LoginRequest(email, password)
    \/ \E waiting \in BagToSet(pendingAuth), compared \in BOOLEAN : LoginResumes(waiting, compared)
    \/ \E sid \in SessionHeaders : Logout(sid)
    \/ \E sid \in SessionHeaders : GetMe(sid)

SpecAuth == AuthInit /\ [][AuthNext]_vars

\* two users registered, one after the other, each holding the session
\* its registration created
TwoAccounts ==
    /\ users = << [id |-> 1, email |-> Email_A, password |-> hashPassword(Password_Strong),
                   name |-> Name_User],
                  [id |-> 3, email |-> Email_B, password |-> hashPassword(Password_Strong),
                   name |-> Name_User] >>
    /\ sessions = {[sid |-> 2, userId |-> 1], [sid |-> 4, userId |-> 3]}
    /\ generated = 4

\* the server after the two registrations, no analysis stored yet
HistoryInit ==
    /\ mindeeAvailable = FALSE
    /\ geminiAvailable = FALSE
    /\ pc = "idle"
    /\ reqFile = FALSE
    /\ reqUser = <<>>
    /\ parsedItems = <<>>
    /\ parsingMethod = "regex"
    /\ hospitalName = Unknown_Hospital
    /\ billDate = "valid"
    /\ ocrConfidence = 80
    /\ ocrText = <<>>
    /\ calls = <<>>
    /\ hung = FALSE
    /\ response = <<>>
    /\ analyses = {}
    /\ cmpItem = NoItemToCompare
    /\ cmpResult = <<>>
    /\ NoListToCompare
    /\ catalog = priceDatabase
    /\ refInfo = <<>>
    /\ suspended = <<>>
    /\ NoTextToParse
    /\ TwoAccounts
    /\ pendingAuth = EmptyBag
    /\ authRequest = Requested("register", 0, 0)
    /\ authResponse = << Responded("register", 200, "", 3, 4, {}) >>

HistoryNext ==
    \/ \E sid \in HistoryHeaders : Logout(sid)
    \/ \E sid \in HistoryHeaders : GetHistory(sid)
    \/ \E sid \in HistoryHeaders, id \in AnalysisIds : GetHistoryItem(sid, id)
    \/ \E sid \in HistoryHeaders, id \in AnalysisIds : DeleteHistoryItem(sid, id)
    \/ \E sid \in HistoryHeaders : AnalyzeAs(sid)
    \/ HandlerReturns

SpecHistory == HistoryInit /\ [][HistoryNext]_vars
\* ------------------------------------------------------------------------
\* comparePrices applied to one item on its own
\* ------------------------------------------------------------------------
MaxQuantity == 2

CompareItems ==
    [ itemName : {Name_Paracetamol, Name_CBC, Name_Unknown},
      category : {Cat_Medicine, Cat_Other},
      quantity : 1..MaxQuantity,
      unitPrice : {0, 5, 10, 15, 20, 25},
      totalBilled : {0, 20, 45, 600, 601} ]

CompareInit ==
    /\ mindeeAvailable = FALSE
    /\ geminiAvailable = FALSE
    /\ AnalyzeIdle
    /\ cmpItem \in CompareItems
    /\ cmpResult = <<>>
    /\ NoListToCompare
    /\ ModuleLoaded

ApplyComparePrices ==
    /\ cmpResult = <<>>
    /\ cmpResult' = << comparePrices(<<cmpItem>>, priceDatabase)[1] >>
    /\ UNCHANGED <<analyzeVars, cmpItem, cmpItems, cmpCatalog, cmpResults, cmpSummary, valText,
                   valResult, outerVars>>

CompareNext == ApplyComparePrices

SpecCompare == CompareInit /\ [][CompareNext]_vars

\* ------------------------------------------------------------------------
\* Properties of the cascade of POST /api/analyze
\* ------------------------------------------------------------------------
Entries(tier) == {i \in DOMAIN calls : calls[i].tier = tier}

\* the tier the handler turns to after a tier that left parsedItems empty
FollowingTier(tier) ==
    CASE tier = "await_mindee" -> IF geminiAvailable THEN "await_vision" ELSE "await_ocr"
      [] tier = "await_vision" -> "await_ocr"
      [] tier = "await_ocr"    -> "validator"
      [] tier = "validator"    -> IF geminiAvailable THEN "await_text" ELSE "regex"
      [] tier = "await_text"   -> "regex"
      [] OTHER                 -> "none"

FirstTier ==
    IF mindeeAvailable THEN "await_mindee"
    ELSE IF geminiAvailable THEN "await_vision" ELSE "await_ocr"

\* C1: with an uploaded file the tiers are invoked in the order invoice
\* adapter, vision adapter, OCR and validator, text parse, regex parser;
\* a tier is invoked only when every earlier tier has settled without
\* items, and after a tier that yielded items only the price comparison runs.
C1_CascadeOrder ==
    (reqFile /\ calls # <<>>) =>
        /\ calls[1].tier = FirstTier
        /\ \A i \in DOMAIN calls :
              (i < Len(calls) /\ calls[i + 1].tier # "comparePrices") =>
                  /\ calls[i + 1].tier = FollowingTier(calls[i].tier)
                  /\ calls[i].status \in {"failed", "empty", "done", "accepted"}
                  /\ calls[i].items = <<>>
        /\ \A i \in DOMAIN calls :
              calls[i].items # <<>> => /\ i + 1 = Len(calls)
                                       /\ calls[i + 1].tier = "comparePrices"

C1_Witness ==
    /\ pc = "done" /\ reqFile /\ Len(calls) >= 5
    /\ calls[1].tier = "await_mindee" /\ calls[1].status = "empty"
    /\ calls[2].tier = "await_vision" /\ calls[2].status = "failed"
    /\ \E i \in Entries("await_text") : calls[i].items # <<>>

\* C2: the failure of a tier, an unparseable bill date included, counts as
\* zero items, so a request ends in an error only as ocr_failed or
\* not_medical_bill.
C2_OnlyCascadeErrors ==
    (response # <<>> /\ response[1].status # 200) =>
        response[1].error \in {"ocr_failed", "not_medical_bill"}

\* C3: when the OCR backend reports failure the request ends with
\* ocr_failed and neither the validator, a parser nor the price
\* comparison runs.
C3_OcrFailureTerminal ==
    \A i \in Entries("await_ocr") :
        calls[i].status = "failed" =>
            /\ pc = "done"
            /\ i = Len(calls)
            /\ response # <<>>
            /\ response[1].status = 400
            /\ response[1].error = "ocr_failed"
            /\ analyses = {}

C3_Witness ==
    /\ pc = "done"
    /\ \E i \in Entries("await_ocr") : calls[i].status = "failed"
    /\ \E i \in Entries("await_vision") : calls[i].status = "empty"

\* C4: when the validator rejects the OCR text the request ends with
\* not_medical_bill carrying the validator's reason and confidence, and
\* neither a parser nor the price comparison runs.
C4_RejectionTerminal ==
    \A i \in Entries("validator") :
        calls[i].status = "rejected" =>
            \E validation \in {validateMedicalBill(ocrText)} :
                /\ pc = "done"
                /\ i = Len(calls)
                /\ response # <<>>
                /\ response[1].status = 400
                /\ response[1].error = "not_medical_bill"
                /\ response[1].message = OrStr(validation.reason, <<Reason_Default>>)
                /\ response[1].confidence = validation.confidence
                /\ analyses = {}

C4_Witness ==
    /\ pc = "done" /\ response # <<>>
    /\ response[1].status = 400
    /\ response[1].error = "not_medical_bill"
    /\ response[1].confidence = 90
    /\ ocrText = TEXT_GROCERY_LINES

\* the tier a parsingMethod tag names
TierOfMethod(method) ==
    CASE method = "mindee"        -> "await_mindee"
      [] method = "gemini-vision" -> "await_vision"
      [] method = "gemini-text"   -> "await_text"
      [] method = "ocr-regex"     -> "regex"
      [] method = "demo-mock"     -> "regex"
      [] OTHER                    -> "none"

\* C5: the parsingMethod of a successful response names the tier whose
\* items and hospital name are returned, and no other tier supplied items.
C5_MethodNamesWinner ==
    (response # <<>> /\ response[1].status = 200) =>
        /\ (response[1].parsingMethod = "demo-mock") <=> ~reqFile
        /\ \E i \in Entries(TierOfMethod(response[1].parsingMethod)) :
              /\ calls[i].status \in {"items", "done"}
              /\ response[1].items = comparePrices(calls[i].items, priceDatabase)
              /\ response[1].hospitalName = calls[i].hospitalName
              /\ \A j \in DOMAIN calls : j # i => calls[j].items = <<>>

C5_Witness ==
    /\ response # <<>> /\ response[1].status = 200
    /\ response[1].parsingMethod = "gemini-text"
    /\ \E i \in Entries("await_vision") : calls[i].status = "empty"
    /\ \E i \in Entries("await_mindee") : calls[i].status = "failed"

\* C6: every analysis request eventually ends, also when a backend call
\* never returns.
C6_RequestTerminates == (pc # "idle") ~> (pc = "done")

\* C7: after OCR succeeded and the validator accepted, whenever the text
\* parse is not available, fails or yields no items, the output of the
\* regex parser is the result, empty or not: the request ends with status
\* 200 and the regex tag, and nothing but the price comparison follows.
C7_RegexTerminal ==
    /\ \A i \in Entries("regex") :
          reqFile =>
              /\ pc = "done"
              /\ i + 1 = Len(calls)
              /\ calls[i + 1].tier = "comparePrices"
              /\ response # <<>>
              /\ response[1].status = 200
              /\ response[1].parsingMethod = "ocr-regex"
              /\ response[1].items = comparePrices(calls[i].items, priceDatabase)
    /\ (/\ pc = "done"
        /\ \E i \in Entries("validator") : calls[i].status = "accepted"
        /\ \A i \in Entries("await_text") : calls[i].items = <<>>)
       => Entries("regex") # {}

C7_Witness ==
    /\ pc = "done" /\ response # <<>>
    /\ response[1].status = 200
    /\ response[1].parsingMethod = "ocr-regex"
    /\ response[1].items = <<>>
    /\ \E i \in Entries("await_text") : calls[i].status = "failed"

\* the rejection rules, on the unit price and the grand total of the bill
PassesSanitizerRules(item, total) ==
    LET name == trim(toLowerCase(item.itemName)) IN
    /\ Len(name) >= 3
    /\ ~includesAny(name, metadataKeywords)
    /\ ~OnlyChars(name, Digits \cup {" ", "-", "(", ")"})
    /\ ~PhonePattern(name)
    /\ ~GSTPattern(toUpperCase(name))
    /\ (total # <<>> /\ total[1] > 0) => item.unitPrice # total[1]
    /\ item.unitPrice > 0 \/ includes(name, <<"d","i","s","c","o","u","n","t">>)
    /\ item.unitPrice <= HIGH_PRICE \/ isMedicalItem(item.itemName)

\* C8: every item handed to the price comparison passes the same rejection
\* rules, whichever tier produced it.
C8_UniformSanitizer ==
    \A i \in DOMAIN calls : \A k \in DOMAIN calls[i].items :
        PassesSanitizerRules(calls[i].items[k], calls[i].totalAmount)

\* C9: no tier returns an item with a unit price above 100,000 whose name
\* has no medical term and no dosage pattern.
C9_HighPriceRejected ==
    \A i \in DOMAIN calls : \A k \in DOMAIN calls[i].items :
        ~(calls[i].items[k].unitPrice > HIGH_PRICE /\ ~isMedicalItem(calls[i].items[k].itemName))

\* C10: for a matched item with charged unit price u, ceiling c and
\* quantity q the status is fair exactly when u <= c, suspicious exactly
\* when u - c > c, overcharged otherwise; overchargeAmount is 0 when fair
\* and max(0, (u - c) * q) otherwise; u is unitPrice when non-zero, else
\* totalBilled / quantity.  With u = n / q the comparisons are on n.
C10_Classification ==
    (cmpResult # <<>> /\ cmpResult[1].govtCeilingPrice # <<>>) =>
        LET r == cmpResult[1]
            q == cmpItem.quantity
            c == r.govtCeilingPrice[1]
            n == IF cmpItem.unitPrice # 0 THEN cmpItem.unitPrice * q ELSE cmpItem.totalBilled
        IN  /\ r.unitPrice[1] * q = n * r.unitPrice[2]
            /\ (r.status = "fair") <=> (n <= c * q)
            /\ (r.status = "suspicious") <=> (n - c * q > c * q)
            /\ (r.status = "overcharged") <=> (n > c * q /\ n - c * q <= c * q)
            /\ r.overchargeAmount = IF n <= c * q THEN <<0, 1>> ELSE <<n - c * q, 1>>

C10_Witness ==
    /\ cmpResult # <<>>
    /\ cmpResult[1].govtCeilingPrice = <<10>>
    /\ cmpResult[1].unitPrice = <<20, 1>>
    /\ cmpResult[1].status = "overcharged"
    /\ cmpResult[1].overchargeAmount = <<20, 1>>

\* ------------------------------------------------------------------------
\* comparePrices and calculateSummary applied to an item list and a catalog
\* ------------------------------------------------------------------------
Name_GeneralWard == <<"G","e","n","e","r","a","l"," ","W","a","r","d">>
Name_GeneralWard10 == <<"G","e","n","e","r","a","l"," ","W","a","r","d"," ","1","0">>
Name_Ward == <<"W","a","r","d">>
Name_NursingWard ==
    <<"N","u","r","s","i","n","g"," ","C","h","a","r","g","e","s"," ",
      "(","G","e","n","e","r","a","l"," ","W","a","r","d",")">>

\* a catalog with the ward entries of the seed data
wardCatalog ==
    << GovtPriceEntry(1, Cat_Nursing, Name_NursingWard, <<"C","G","H","S","-","N","0","0","1">>, 200,
                      "CGHS", 20240101),
       GovtPriceEntry(2, Cat_Room, Name_GeneralWard, <<"C","G","H","S","-","R","0","0","1">>, 1000,
                      "CGHS", 20240101),
       GovtPriceEntry(3, Cat_Room, Name_Ward, <<>>, 500, "CGHS", 20240101) >>

Name_ICUShort == <<"I","C","U">>

Catalogs == {<<>>, priceDatabase, wardCatalog}

ParsedBillItem(name, category, quantity, unitPrice, totalBilled) ==
    [itemName |-> name, category |-> category, quantity |-> quantity, unitPrice |-> unitPrice,
     totalBilled |-> totalBilled]

\* items as the tiers return them; a quantity below 1 comes with a unit price
ListItems ==
    { ParsedBillItem(Name_Paracetamol, Cat_Medicine, MaxQuantity, 10, 10 * MaxQuantity),
      ParsedBillItem(Name_Paracetamol, Cat_Medicine, 2, 15, 30),
      ParsedBillItem(Name_Paracetamol, Cat_Medicine, 1, 0, 45),
      ParsedBillItem(Name_Paracetamol, Cat_Medicine, -1, 15, -15),
      ParsedBillItem(Name_Unknown, Cat_Other, 1, 50, 50),
      ParsedBillItem(Name_Discount, Cat_Other, 1, -100, -100),
      ParsedBillItem(Name_GeneralWard10, Cat_Room, 1, 1500, 1500),
      ParsedBillItem(Name_GeneralWard, Cat_Room, 1, 900, 900),
      ParsedBillItem(Name_ICUShort, Cat_Room, 1, 6000, 6000),
      ParsedBillItem(Name_ICUShort, Cat_Other, 1, 6000, 6000) }

ListInit ==
    /\ mindeeAvailable = FALSE
    /\ geminiAvailable = FALSE
    /\ AnalyzeIdle
    /\ cmpItem = NoItemToCompare
    /\ cmpResult = <<>>
    /\ cmpItems \in SeqsUpTo(ListItems, MaxItems)
    /\ cmpCatalog \in Catalogs
    /\ cmpResults = <<>>
    /\ cmpSummary = <<>>
    /\ valText = <<>>
    /\ valResult = <<>>
    /\ ModuleLoaded

CallComparePrices ==
    /\ cmpResults = <<>>
    /\ cmpResults' = << comparePrices(cmpItems, cmpCatalog) >>
    /\ UNCHANGED <<analyzeVars, cmpItem, cmpResult, cmpItems, cmpCatalog, cmpSummary, valText,
                   valResult, outerVars>>

CallCalculateSummary ==
    /\ cmpResults # <<>> /\ cmpSummary = <<>>
    /\ cmpSummary' = << calculateSummary(cmpResults[1]) >>
    /\ UNCHANGED <<analyzeVars, cmpItem, cmpResult, cmpItems, cmpCatalog, cmpResults, valText,
                   valResult, outerVars>>

ListNext == CallComparePrices \/ CallCalculateSummary

SpecList == ListInit /\ [][ListNext]_vars

\* C11: the overchargeAmount of a result is never negative, is 0 when the
\* status is fair, and is above 0 only when the status is overcharged or
\* suspicious.
C11_OverchargeSign ==
    cmpResults # <<>> =>
        \A i \in DOMAIN cmpResults[1] :
            LET r == cmpResults[1][i] IN
            /\ r.overchargeAmount[1] >= 0
            /\ r.status = "fair" => r.overchargeAmount = <<0, 1>>
            /\ r.overchargeAmount[1] > 0 => r.status \in {"overcharged", "suspicious"}

C11_Witness ==
    /\ cmpResults # <<>> /\ Len(cmpResults[1]) = 2
    /\ cmpResults[1][1].status = "overcharged" /\ cmpResults[1][1].overchargeAmount = <<0, 1>>
    /\ cmpResults[1][1].quantity = -1
    /\ cmpResults[1][2].status = "suspicious" /\ cmpResults[1][2].overchargeAmount = <<35, 1>>

\* C12: the status of a result is not_found exactly when govtCeilingPrice
\* is null, and exactly then priceSource and sourceDate are null; any other
\* result carries the ceiling price, the source with the item code, and the
\* publication date of the catalog entry findBestMatch returned for it.
C12_NotFoundNull ==
    cmpResults # <<>> =>
        \A i \in DOMAIN cmpResults[1] :
            LET r == cmpResults[1][i]
                item == cmpItems[i]
                match == findBestMatch(item, cmpCatalog)
            IN  /\ (r.status = "not_found") <=> (r.govtCeilingPrice = <<>>)
                /\ (r.status = "not_found") <=> (r.priceSource = <<>>)
                /\ (r.status = "not_found") <=> (r.sourceDate = <<>>)
                /\ (r.status = "not_found") <=> (match = <<>>)
                /\ r.status # "not_found" =>
                      \E k \in DOMAIN cmpCatalog :
                          /\ cmpCatalog[k].id = match[1]
                          /\ r.govtCeilingPrice = <<cmpCatalog[k].ceilingPrice>>
                          /\ r.priceSource[1].source = cmpCatalog[k].source
                          /\ r.priceSource[1].itemCode \in {cmpCatalog[k].itemCode, <<"N","/","A">>}
                          /\ r.sourceDate = <<cmpCatalog[k].publishedDate>>

C12_Witness ==
    /\ cmpResults # <<>> /\ Len(cmpResults[1]) = 2
    /\ cmpCatalog = priceDatabase
    /\ cmpResults[1][1].status = "not_found" /\ cmpResults[1][1].sourceDate = <<>>
    /\ cmpResults[1][2].status = "fair" /\ cmpResults[1][2].govtCeilingPrice = <<10>>
    /\ cmpResults[1][2].sourceDate = <<20240315>>

\* the sum of a sequence of numbers
RECURSIVE Total(_)
Total(numbers) ==
    IF numbers = <<>> THEN 0 ELSE Head(numbers) + Total(Tail(numbers))

\* the fair price of a result: ceiling * quantity when matched, totalBilled
\* otherwise
FairPrice(r) ==
    IF r.status # "not_found" THEN r.govtCeilingPrice[1] * r.quantity ELSE r.totalBilled

\* the sums of the summary are those of the result list
SummarySums(results, s) ==
    /\ s.totalBilled = <<Total([i \in DOMAIN results |-> results[i].totalBilled]), 1>>
    /\ s.totalOvercharge = <<Total([i \in DOMAIN results |-> results[i].overchargeAmount[1]]), 1>>
    /\ \A i \in DOMAIN results : results[i].overchargeAmount[2] = 1
    /\ s.totalFairPrice = <<Total([i \in DOMAIN results |-> FairPrice(results[i])]), 1>>
    /\ results = <<>> =>
          /\ s.totalBilled = <<0, 1>> /\ s.totalFairPrice = <<0, 1>>
          /\ s.totalOvercharge = <<0, 1>> /\ s.savingsPercent = <<0, 1>>
          /\ s.overchargedCount = 0 /\ s.fairCount = 0 /\ s.notFoundCount = 0 /\ s.itemCount = 0
    /\ (\A i \in DOMAIN results : results[i].status = "not_found") =>
          s.totalFairPrice = s.totalBilled

\* savingsPercent = totalOvercharge / totalBilled * 100
IsPercentage(s) ==
    s.savingsPercent[1] * s.totalBilled[1] = 100 * s.totalOvercharge[1] * s.savingsPercent[2]

\* C13 as stated: the sums of the summary are those of the result list,
\* savingsPercent is totalOvercharge / totalBilled * 100, and 0 when
\* totalBilled is 0.
C13_SummaryAsStated ==
    cmpSummary # <<>> =>
        /\ SummarySums(cmpResults[1], cmpSummary[1])
        /\ IF cmpSummary[1].totalBilled[1] # 0 THEN IsPercentage(cmpSummary[1])
           ELSE cmpSummary[1].savingsPercent = <<0, 1>>

\* C13 as amended: the sums of the summary are those of the result list;
\* savingsPercent is totalOvercharge / totalBilled * 100 when totalBilled
\* is above 0, and 0 when it is 0 or negative.
C13_Summary ==
    cmpSummary # <<>> =>
        /\ SummarySums(cmpResults[1], cmpSummary[1])
        /\ IF cmpSummary[1].totalBilled[1] > 0 THEN IsPercentage(cmpSummary[1])
           ELSE cmpSummary[1].savingsPercent = <<0, 1>>

C13_Witness ==
    /\ cmpSummary # <<>> /\ Len(cmpResults[1]) = 2
    /\ cmpSummary[1].totalBilled = <<-70, 1>>
    /\ cmpSummary[1].totalOvercharge = <<10, 1>>
    /\ cmpSummary[1].totalFairPrice = <<320, 1>>
    /\ cmpSummary[1].savingsPercent = <<0, 1>>

\* the score findBestMatch compares, of the entry with this id
ScoreOf(item, entries, match) == TotalScore(item, EntryById(entries, match[1]))

\* some entry of the item's category reaches the acceptance threshold
CategoryAccepts(item, entries) ==
    \E k \in DOMAIN entries :
        SameCategory(entries[k], item) /\ FracLeq(THRESHOLD, TotalScore(item, entries[k]))

\* C14 as stated: whenever some entry of the item's category reaches the
\* threshold, the entry findBestMatch returns scores at least as high as
\* every entry of the catalog, the best a single unrestricted pass finds.
C14_CategoryFirstNoWorse ==
    cmpResults # <<>> =>
        \A i \in DOMAIN cmpItems :
            CategoryAccepts(cmpItems[i], cmpCatalog) =>
                LET match == findBestMatch(cmpItems[i], cmpCatalog) IN
                /\ match # <<>>
                /\ \A k \in DOMAIN cmpCatalog :
                      FracLeq(TotalScore(cmpItems[i], cmpCatalog[k]),
                              ScoreOf(cmpItems[i], cmpCatalog, match))

\* C14 as amended: whenever some entry of the item's category reaches the
\* threshold, the entry findBestMatch returns scores at least as high as
\* every entry of the item's category and, unless its score is above the
\* cutoff 0.7 that ends the search after the category pass, at least as
\* high as every entry of the catalog.
C14_CategoryFirst ==
    cmpResults # <<>> =>
        \A i \in DOMAIN cmpItems :
            CategoryAccepts(cmpItems[i], cmpCatalog) =>
                LET match == findBestMatch(cmpItems[i], cmpCatalog) IN
                /\ match # <<>>
                /\ cmpResults[1][i].priceSource =
                      <<PriceSourceOf(EntryById(cmpCatalog, match[1]))>>
                /\ \A k \in DOMAIN cmpCatalog :
                      (\/ SameCategory(cmpCatalog[k], cmpItems[i])
                       \/ FracLeq(ScoreOf(cmpItems[i], cmpCatalog, match), GOOD_MATCH))
                      => FracLeq(TotalScore(cmpItems[i], cmpCatalog[k]),
                                 ScoreOf(cmpItems[i], cmpCatalog, match))

C14_Witness ==
    /\ cmpResults # <<>> /\ Len(cmpItems) = 1
    /\ cmpCatalog = wardCatalog
    /\ cmpItems[1].itemName = Name_GeneralWard10
    /\ cmpResults[1][1].govtCeilingPrice = <<1000>>
    /\ TotalScore(cmpItems[1], wardCatalog[1]) = <<1, 1>>
    /\ TotalScore(cmpItems[1], wardCatalog[2]) = <<9, 10>>

\* no entry of the catalog reaches the acceptance threshold for the item
NoAcceptableMatch(item, entries) ==
    \A k \in DOMAIN entries : FracLess(TotalScore(item, entries[k]), THRESHOLD)

\* C15: comparePrices returns one result per input item, in input order,
\* for any catalog, the empty one included, and an item no entry reaches
\* the threshold for gets the status not_found.
C15_OneResultPerItem ==
    cmpResults # <<>> =>
        /\ Len(cmpResults[1]) = Len(cmpItems)
        /\ \A i \in DOMAIN cmpItems :
              /\ cmpResults[1][i].itemName = cmpItems[i].itemName
              /\ cmpResults[1][i].category = cmpItems[i].category
              /\ cmpResults[1][i].quantity = cmpItems[i].quantity
              /\ cmpResults[1][i].totalBilled = cmpItems[i].totalBilled
              /\ NoAcceptableMatch(cmpItems[i], cmpCatalog) <=>
                    cmpResults[1][i].status = "not_found"

C15_Witness ==
    /\ cmpResults # <<>> /\ Len(cmpItems) = 2
    /\ cmpCatalog = <<>>
    /\ cmpItems[1].itemName = Name_Paracetamol /\ cmpItems[2].itemName = Name_Unknown
    /\ cmpResults[1][1].status = "not_found" /\ cmpResults[1][2].status = "not_found"

\* ------------------------------------------------------------------------
\* validateMedicalBill applied to a text on its own
\* ------------------------------------------------------------------------
MaxLines == 3

\* lines with one and two medical keywords, one and two non-medical
\* keywords, and an amount
ValidatorLines ==
    { [text |-> <<"T","a","b","l","e","t">>],
      [text |-> <<"C","l","i","n","i","c"," ","s","u","r","g","e","o","n">>],
      [text |-> <<"G","r","o","c","e","r","y">>],
      [text |-> <<"P","i","z","z","a"," ","b","u","r","g","e","r">>],
      [text |-> <<"4","5",".","0","0">>] }

ValidateInit ==
    /\ mindeeAvailable = FALSE
    /\ geminiAvailable = FALSE
    /\ AnalyzeIdle
    /\ cmpItem = NoItemToCompare
    /\ cmpResult = <<>>
    /\ cmpItems = <<>>
    /\ cmpCatalog = <<>>
    /\ cmpResults = <<>>
    /\ cmpSummary = <<>>
    /\ valText \in SeqsUpTo(ValidatorLines, MaxLines)
    /\ valResult = <<>>
    /\ ModuleLoaded

CallValidateMedicalBill ==
    /\ valResult = <<>>
    /\ valResult' = << validateMedicalBill(valText) >>
    /\ UNCHANGED <<analyzeVars, cmpItem, cmpResult, cmpItems, cmpCatalog, cmpResults, cmpSummary,
                   valText, outerVars>>

ValidateNext == CallValidateMedicalBill

SpecValidate == ValidateInit /\ [][ValidateNext]_vars

\* the number of keywords of a lexicon that occur in the text
Hits(text, lexicon) ==
    Cardinality({k \in DOMAIN lexicon : TextIncludes(text, lexicon[k])})

\* the reason names a non-medical keyword that occurs in the text
NamesNonMedical(text, reason) ==
    /\ Len(reason) = 2
    /\ \E k \in DOMAIN NON_MEDICAL_KEYWORDS :
          reason[2] = NON_MEDICAL_KEYWORDS[k] /\ TextIncludes(text, reason[2])

\* the decision table on m medical hits and a non-medical score of w
DecisionTable(text, result, m, n, w) ==
    IF m = 0 /\ n = 0 THEN ~result.isMedicalBill
    ELSE IF m >= 3 /\ w <= 1 THEN result.isMedicalBill
    ELSE IF m >= 1 /\ n = 0 THEN result.isMedicalBill
    ELSE IF w > m THEN ~result.isMedicalBill /\ NamesNonMedical(text, result.reason)
    ELSE result.isMedicalBill <=> m >= 2

\* C16 as stated: with m medical and n non-medical keywords found, the
\* verdict is that of the decision table on the raw counts m and n.
C16_TableOnRawCounts ==
    valResult # <<>> =>
        DecisionTable(valText, valResult[1], Hits(valText, VALIDATOR_MEDICAL_KEYWORDS),
                      Hits(valText, NON_MEDICAL_KEYWORDS), Hits(valText, NON_MEDICAL_KEYWORDS))

\* C16 as amended: the verdict is that of the decision table with every
\* non-medical keyword counting twice: reject when m = 0 and n = 0; accept
\* when m >= 3 and 2n <= 1; accept when m >= 1 and n = 0; reject when
\* 2n > m, the reason naming a non-medical keyword found; otherwise accept
\* exactly when m >= 2.
C16_DecisionTable ==
    valResult # <<>> =>
        DecisionTable(valText, valResult[1], Hits(valText, VALIDATOR_MEDICAL_KEYWORDS),
                      Hits(valText, NON_MEDICAL_KEYWORDS),
                      2 * Hits(valText, NON_MEDICAL_KEYWORDS))

C16_Witness ==
    /\ valResult # <<>>
    /\ Hits(valText, VALIDATOR_MEDICAL_KEYWORDS) = 3
    /\ Hits(valText, NON_MEDICAL_KEYWORDS) = 2
    /\ ~valResult[1].isMedicalBill
    /\ valResult[1].confidence = 90

Yielding(l) == {i \in DOMAIN l.calls : l.calls[i].items # <<>>}

\* what an invocation holds and answers comes from its own calls: the
\* items, hospital name and method are those of the one call of its own
\* that yielded items (none: no items), and its response carries them, or
\* the error of its own OCR or validator call
OwnOutcome(l) ==
    /\ Cardinality(Yielding(l)) <= 1
    /\ Yielding(l) = {} => l.parsedItems = <<>>
    /\ \A i \in Yielding(l) :
          /\ l.parsedItems = l.calls[i].items
          /\ l.hospitalName = l.calls[i].hospitalName
          /\ TierOfMethod(l.parsingMethod) = l.calls[i].tier
    /\ (l.response # <<>> /\ l.response[1].status = 200) =>
          /\ l.pc = "done"
          /\ l.response[1].items = comparePrices(l.parsedItems, priceDatabase)
          /\ l.response[1].hospitalName = l.hospitalName
          /\ l.response[1].parsingMethod = l.parsingMethod
          /\ l.response[1].ocrConfidence = l.ocrConfidence
          /\ l.calls[Len(l.calls)].tier = "comparePrices"
    /\ (l.response # <<>> /\ l.response[1].status = 400) =>
          /\ l.calls # <<>>
          /\ \/ /\ l.response[1].error = "ocr_failed"
                /\ l.calls[Len(l.calls)].tier = "await_ocr"
                /\ l.calls[Len(l.calls)].status = "failed"
             \/ /\ l.response[1].error = "not_medical_bill"
                /\ l.calls[Len(l.calls)].tier = "validator"
                /\ l.calls[Len(l.calls)].status = "rejected"
                /\ l.response[1].confidence = validateMedicalBill(l.ocrText).confidence
    /\ l.pc = "idle" => l = IdleLocals

\* C18: when two analysis requests interleave at their backend calls, what
\* each holds and answers depends on its own input and its own backend
\* responses only.
C18_RequestsIsolated ==
    /\ OwnOutcome(RunningLocals)
    /\ \A k \in DOMAIN suspended : OwnOutcome(suspended[k])

C18_Witness ==
    /\ suspended # <<>>
    /\ pc = "done" /\ response # <<>> /\ response[1].status = 200
    /\ response[1].parsingMethod = "gemini-vision"
    /\ suspended[1].pc = "done" /\ suspended[1].response # <<>>
    /\ suspended[1].response[1].status = 400
    /\ suspended[1].response[1].error = "not_medical_bill"
    /\ \E i \in DOMAIN suspended[1].calls :
          suspended[1].calls[i].tier = "await_vision" /\ suspended[1].calls[i].status = "failed"

\* C19: a request without a file invokes no extraction backend, no OCR and
\* no validator: the regex parser runs on the canned transcript, the price
\* comparison follows, and the method reported is demo-mock.
C19_DemoMode ==
    (pc # "idle" /\ ~reqFile) =>
        /\ pc = "done"
        /\ Len(calls) = 2
        /\ calls[1].tier = "regex"
        /\ calls[1].items = regexResults[MOCK_TEXT_LINES].items
        /\ calls[2].tier = "comparePrices"
        /\ ocrText = <<>>
        /\ parsedItems = regexResults[MOCK_TEXT_LINES].items
        /\ response # <<>>
        /\ response[1].status = 200
        /\ response[1].parsingMethod = "demo-mock"
        /\ response[1].items = comparePrices(regexResults[MOCK_TEXT_LINES].items, priceDatabase)

C19_Witness ==
    /\ pc = "done" /\ ~reqFile /\ response # <<>>
    /\ response[1].parsingMethod = "demo-mock"
    /\ Len(response[1].items) > 2
    /\ mindeeAvailable /\ geminiAvailable

\* ------------------------------------------------------------------------
\* The high-price rule and medical context
\* ------------------------------------------------------------------------
\* an item priced above the ceiling whose name has medical context and
\* which no other rejection rule applies to
ExpensiveMedical(item, total) ==
    /\ item.unitPrice > HIGH_PRICE
    /\ isMedicalItem(item.itemName)
    /\ PassesSanitizerRules(item, total)

\* the item is among those the call that just settled returned
ReturnedByTier(item, log) ==
    \E k \in DOMAIN log[Len(calls)].items :
        /\ log[Len(calls)].items[k].itemName = item.itemName
        /\ log[Len(calls)].items[k].unitPrice = item.unitPrice

\* the line item of a Mindee prediction as parseWithMindee reads it
MindeeRead(lineItem) ==
    [ itemName    |-> OrStr(lineItem.description, Unknown_Item),
      category    |-> Cat_Other,
      quantity    |-> OrNum(lineItem.quantity, 1),
      unitPrice   |-> OrNum(lineItem.unitPrice, 0),
      totalBilled |-> OrNum(lineItem.totalAmount, 0) ]

\* the Mindee sanitizer returns every such item of the prediction
MindeeKeepsExpensiveMedical ==
    \A answer \in MindeeAnswers :
        MindeeReturns(answer) =>
            \A i \in DOMAIN answer.lineItems :
                ExpensiveMedical(MindeeRead(answer.lineItems[i]), <<answer.totalAmount>>)
                    => ReturnedByTier(MindeeRead(answer.lineItems[i]), calls')

\* the Gemini sanitizer returns every such item of the model's answer
GeminiKeepsExpensiveMedical ==
    \A answer \in GeminiAnswers :
        (VisionReturns(answer) \/ TextReturns(answer)) =>
            \A i \in DOMAIN answer.items :
                ExpensiveMedical(FixItem(answer.items[i]), <<answer.totalAmount>>)
                    => ReturnedByTier(FixItem(answer.items[i]), calls')

\* C20: when a tier settles, every item of its backend's answer that is
\* priced above 100,000, has a medical term or a dosage pattern in its name
\* and breaks no other rejection rule is among the items the tier returns:
\* no sanitizer rejects it on account of its price.
C20_MedicalContextKept ==
    [][MindeeKeepsExpensiveMedical /\ GeminiKeepsExpensiveMedical]_vars

\* the same for the Mindee tier alone
MindeeTierKeepsExpensiveMedical == [][MindeeKeepsExpensiveMedical]_vars
\* PHARMACY
LINE_PHARMACY ==
    [ text |-> <<"P","H","A","R","M","A","C","Y">>,
      name |-> <<"P","H","A","R","M","A","C","Y">>,
      nums |-> <<>>, qty |-> 0, mrp |-> 0 ]

\* LABORATORY
LINE_LABORATORY ==
    [ text |-> <<"L","A","B","O","R","A","T","O","R","Y">>,
      name |-> <<"L","A","B","O","R","A","T","O","R","Y">>,
      nums |-> <<>>, qty |-> 0, mrp |-> 0 ]

\* Dolo 650 30.00
LINE_DOLO ==
    [ text |-> <<"D","o","l","o"," ","6","5","0"," ","3","0",".","0","0">>,
      name |-> <<"D","o","l","o",".">>,
      nums |-> <<650, 30>>, qty |-> 0, mrp |-> 0 ]

\* Paracetamol Tab 2 nos 10.00 20.00
LINE_PARACETAMOL ==
    [ text |-> <<"P","a","r","a","c","e","t","a","m","o","l"," ","T","a","b"," ","2"," ","n","o","s"," ","1","0",".","0","0"," ","2","0",".","0","0">>,
      name |-> <<"P","a","r","a","c","e","t","a","m","o","l"," ","T","a","b",".",".">>,
      nums |-> <<2, 10, 20>>, qty |-> 2, mrp |-> 0 ]

\* Syringe 5 pcs 5.00
LINE_SYRINGE ==
    [ text |-> <<"S","y","r","i","n","g","e"," ","5"," ","p","c","s"," ","5",".","0","0">>,
      name |-> <<"S","y","r","i","n","g","e",".">>,
      nums |-> <<5, 5>>, qty |-> 5, mrp |-> 0 ]

\* Crocin MRP 30 20.00
LINE_CROCIN ==
    [ text |-> <<"C","r","o","c","i","n"," ","M","R","P"," ","3","0"," ","2","0",".","0","0">>,
      name |-> <<"C","r","o","c","i","n"," ","M","R","P",".">>,
      nums |-> <<30, 20>>, qty |-> 0, mrp |-> 30 ]

\* Room Charges 2 1500.00 3000.00
LINE_ROOM ==
    [ text |-> <<"R","o","o","m"," ","C","h","a","r","g","e","s"," ","2"," ","1","5","0","0",".","0","0"," ","3","0","0","0",".","0","0">>,
      name |-> <<"R","o","o","m"," ","C","h","a","r","g","e","s",".",".">>,
      nums |-> <<2, 1500, 3000>>, qty |-> 0, mrp |-> 0 ]
\* ------------------------------------------------------------------------
\* parseBillText applied to a text on its own, twice over
\* ------------------------------------------------------------------------
MaxParses == 2

\* two headers, an item line without a category keyword, and item lines
\* with one; a quantity marker, an MRP, two and three numbers
ParserLines ==
    {LINE_PHARMACY, LINE_LABORATORY, LINE_DOLO, LINE_PARACETAMOL, LINE_SYRINGE, LINE_CROCIN,
     LINE_ROOM}

ParseInit ==
    /\ mindeeAvailable = FALSE
    /\ geminiAvailable = FALSE
    /\ AnalyzeIdle
    /\ cmpItem = NoItemToCompare
    /\ cmpResult = <<>>
    /\ NoListToCompare
    /\ catalog = priceDatabase
    /\ refInfo = <<>>
    /\ suspended = <<>>
    /\ parseText \in SeqsUpTo(ParserLines, MaxLines)
    /\ parseCalls = 0
    /\ parseResult = <<>>
    /\ parseCursor = Cat_Other
    /\ NoAccounts

CallParseBillText ==
    /\ parseCalls < MaxParses
    /\ parseCalls' = parseCalls + 1
    /\ \E r \in {ParseLoop(parseText, InitialCategory(parseCursor), <<>>)} :
          /\ parseResult' = << r.items >>
          /\ parseCursor' = r.cursor
    /\ UNCHANGED <<analyzeVars, cmpVars, catalog, refInfo, suspended, parseText, authVars>>

ParseNext == CallParseBillText

SpecParse == ParseInit /\ [][ParseNext]_vars

\* the lines of the text that yield an item, in order
ItemLines(text) ==
    SelectSeq([i \in 1..Len(text) |-> i],
              LAMBDA i : /\ ~isCategoryHeader(toLowerCase(text[i].text))
                         /\ parseLineItem(text[i], Cat_Other) # NoItem)

\* the category of the most recent header line before line i, Other before
\* the first header
LastHeaderBefore(text, i) ==
    CategoryAt(Array([j \in 1..Len(text) |-> HeaderCategory(text[j])]), i, Cat_Other)

\* C25 as stated: every extracted item carries the category of the most
\* recent header line before it, Other before the first header, on every
\* call.
C25_HeaderCategoryOnly ==
    parseResult # <<>> =>
        LET itemLines == ItemLines(parseText)
        IN  /\ Len(parseResult[1]) = Len(itemLines)
            /\ \A k \in DOMAIN parseResult[1] :
                  parseResult[1][k].category = LastHeaderBefore(parseText, itemLines[k])

\* C25 as amended: every extracted item whose own line contains no
\* category keyword carries the category of the most recent header line
\* before it, Other before the first header, and an item whose line
\* contains a category keyword carries the category of that keyword; the
\* cursor starts at Other on every call, so a second parse of the text
\* gives the same items, which are those the analyze handler gets.
C25_CategoryCursor ==
    parseResult # <<>> =>
        LET itemLines == ItemLines(parseText)
        IN  /\ Len(parseResult[1]) = Len(itemLines)
            /\ \A k \in DOMAIN parseResult[1] :
                  parseResult[1][k].category =
                      OrStr(detectCategory(toLowerCase(parseText[itemLines[k]].text)),
                            LastHeaderBefore(parseText, itemLines[k]))
            /\ parseResult[1] = parseBillText(parseText).items

\* the second parse of 'Dolo' followed by the header LABORATORY: the first
\* call left the cursor at Test, and the item is Other again; in another
\* reachable text the item follows the header and is a Test
C25_Witness ==
    /\ parseCalls = 2 /\ parseText = <<LINE_DOLO, LINE_LABORATORY>>
    /\ parseCursor = Cat_Test
    /\ Len(parseResult[1]) = 1 /\ parseResult[1][1].category = Cat_Other
    /\ ParseLoop(<<LINE_PHARMACY, LINE_LABORATORY, LINE_DOLO>>, Cat_Other, <<>>).items[1].category
          = Cat_Test

\* ------------------------------------------------------------------------
\* The price assignment of parseLineItem
\* ------------------------------------------------------------------------
\* the numeric tokens of a line that are above 0, and its detected quantity
Numbers(line) == SelectSeq(line.nums, LAMBDA n : n > 0)

QuantityOf(line) == IF line.qty # 0 THEN line.qty ELSE 1

\* the prices as stated, for numbers n and quantity q
PricesAsStated(item, n, q) ==
    IF Len(n) >= 3 /\ n[1] = q THEN item.unitPrice = n[2] /\ item.totalBilled = n[3]
    ELSE IF Len(n) = 2 /\ n[2] >= n[1] THEN item.unitPrice = n[1] /\ item.totalBilled = n[2]
    ELSE item.totalBilled = n[Len(n)] /\ item.unitPrice * q = item.totalBilled

\* the prices as assigned, for numbers n, quantity q and MRP mrp (0: none)
PricesAssigned(item, n, q, mrp) ==
    IF Len(n) >= 3 /\ n[1] = q THEN item.unitPrice = n[2] /\ item.totalBilled = n[3]
    ELSE /\ item.totalBilled = n[Len(n)]
         /\ IF Len(n) >= 2 /\ n[Len(n)] > n[Len(n) - 1] THEN item.unitPrice = n[Len(n) - 1]
            ELSE IF mrp # 0 THEN item.unitPrice = mrp
            ELSE item.unitPrice * q = item.totalBilled

\* C26 as stated: with numbers n1..nk and quantity q, if k >= 3 and n1 = q
\* the unit price is n2 and the total n3; if k = 2 and n2 >= n1 the unit
\* price is n1 and the total n2; otherwise the total is the last number and
\* the unit price is total / q.
C26_PricesAsStated ==
    parseResult # <<>> =>
        LET itemLines == ItemLines(parseText)
        IN  \A k \in DOMAIN parseResult[1] :
                PricesAsStated(parseResult[1][k], Numbers(parseText[itemLines[k]]),
                               QuantityOf(parseText[itemLines[k]]))

\* C26 as amended: if k >= 3 and n1 = q the unit price is n2 and the total
\* n3; otherwise the total is the last number, and the unit price is the
\* second-to-last number if k >= 2 and the last number is greater than it,
\* else the MRP if the line names one, else total / q.
C26_PriceAssignment ==
    parseResult # <<>> =>
        LET itemLines == ItemLines(parseText)
        IN  /\ Len(parseResult[1]) = Len(itemLines)
            /\ \A k \in DOMAIN parseResult[1] :
                  PricesAssigned(parseResult[1][k], Numbers(parseText[itemLines[k]]),
                                 QuantityOf(parseText[itemLines[k]]),
                                 parseText[itemLines[k]].mrp)

\* 'Syringe 5 pcs 5.00' (two equal numbers, quantity 5) is priced 1 a
\* piece, 'Crocin MRP 30 20.00' at its MRP, and 'Room Charges 2 1500.00
\* 3000.00' (three numbers, no quantity marker) at the second-to-last number
C26_Witness ==
    /\ parseResult # <<>> /\ parseText = <<LINE_SYRINGE, LINE_CROCIN, LINE_ROOM>>
    /\ Len(parseResult[1]) = 3
    /\ parseResult[1][1].unitPrice = 1 /\ parseResult[1][1].totalBilled = 5
    /\ parseResult[1][2].unitPrice = 30 /\ parseResult[1][2].totalBilled = 20
    /\ parseResult[1][3].unitPrice = 1500 /\ parseResult[1][3].totalBilled = 3000

\* ------------------------------------------------------------------------
\* The adapters' sanitizers applied to their own results
\* ------------------------------------------------------------------------
\* the calls of a tier that returned items
Returned(tiers) == {i \in DOMAIN calls : calls[i].tier \in tiers /\ calls[i].status = "items"}

\* no name of the list contains an entry of the lexicon
FreeOf(items, lexicon) ==
    \A k \in DOMAIN items : ~includesAny(trim(toLowerCase(items[k].itemName)), lexicon)

\* the items step of validateAndFixBill applied to a list
GeminiSanitized(items) ==
    SelectSeq(Array([k \in 1..Len(items) |-> FixItem(items[k])]), GeminiKeeps)

\* C21: no item an adapter returns has a name containing an entry of that
\* adapter's metadata-keyword lexicon, and the adapter's sanitizer applied to
\* the returned list (with the same grand total) gives the same list back.
C21_SanitizerIdempotent ==
    /\ \A i \in Returned({"await_mindee"}) :
          /\ FreeOf(calls[i].items, GARBAGE_KEYWORDS)
          /\ cleanParsedItems(calls[i].items, calls[i].totalAmount[1]) = calls[i].items
    /\ \A i \in Returned({"await_vision", "await_text"}) :
          /\ FreeOf(calls[i].items, metadataKeywords)
          /\ GeminiSanitized(calls[i].items) = calls[i].items

\* a Gemini tier returned a list of two items
C21_Witness ==
    \E i \in Returned({"await_vision", "await_text"}) : Len(calls[i].items) = 2

\* ------------------------------------------------------------------------
\* The acceptance minimum of findBestMatch
\* ------------------------------------------------------------------------
\* C22: findBestMatch returns null exactly when no entry of the catalog has
\* a boosted score (similarity plus 0.1 for an entry of the item's category)
\* of at least 0.4, the entry it returns has a boosted score of at least
\* 0.4 and is the one the result is priced from, and the result's status is
\* not_found exactly when findBestMatch returned null.
C22_AcceptanceMinimum ==
    cmpResults # <<>> =>
        \A i \in DOMAIN cmpItems :
            LET match == findBestMatch(cmpItems[i], cmpCatalog) IN
            /\ match = <<>> <=> NoAcceptableMatch(cmpItems[i], cmpCatalog)
            /\ match = <<>> <=> cmpResults[1][i].status = "not_found"
            /\ match # <<>> =>
                  /\ \E k \in DOMAIN cmpCatalog : cmpCatalog[k].id = match[1]
                  /\ FracLeq(THRESHOLD, ScoreOf(cmpItems[i], cmpCatalog, match))
                  /\ cmpResults[1][i].govtCeilingPrice =
                        <<EntryById(cmpCatalog, match[1]).ceilingPrice>>

\* 'ICU' scores 3/8 against 'ICU Stay': as a Room item the boost lifts it
\* over the minimum, as an Other item it stays below and nothing is found
C22_Witness ==
    /\ cmpResults # <<>> /\ Len(cmpItems) = 2 /\ cmpCatalog = priceDatabase
    /\ cmpItems[1].itemName = Name_ICUShort /\ cmpItems[1].category = Cat_Room
    /\ cmpItems[2].itemName = Name_ICUShort /\ cmpItems[2].category = Cat_Other
    /\ TotalScore(cmpItems[1], priceDatabase[3]) = <<19, 40>>
    /\ TotalScore(cmpItems[2], priceDatabase[3]) = <<3, 8>>
    /\ cmpResults[1][1].govtCeilingPrice = <<5000>>
    /\ cmpResults[1][2].status = "not_found"

\* ------------------------------------------------------------------------
\* fuzzyScore as a similarity
\* ------------------------------------------------------------------------
\* the pairs of names the comparison scores: item name, entry name
ScoredPairs ==
    {<<cmpItems[i].itemName, cmpCatalog[k].itemName>> : i \in DOMAIN cmpItems, k \in DOMAIN cmpCatalog}

InUnitInterval(x) == FracLeq(<<0, 1>>, x) /\ FracLeq(x, <<1, 1>>)

\* one of the lower-cased, trimmed names contains the other
OneContainsOther(a, b) ==
    \/ includes(trim(toLowerCase(a)), trim(toLowerCase(b)))
    \/ includes(trim(toLowerCase(b)), trim(toLowerCase(a)))

\* C23 as stated: for all names a and b fuzzyScore(a, b) = fuzzyScore(b, a),
\* both lie between 0 and 1, and fuzzyScore(x, x) = 1 for non-empty x.
C23_SymmetricSimilarity ==
    cmpResults # <<>> =>
        \A p \in ScoredPairs :
            /\ fuzzyScore(p[1], p[2]) = fuzzyScore(p[2], p[1])
            /\ InUnitInterval(fuzzyScore(p[1], p[2])) /\ InUnitInterval(fuzzyScore(p[2], p[1]))
            /\ fuzzyScore(p[1], p[1]) = <<1, 1>> /\ fuzzyScore(p[2], p[2]) = <<1, 1>>

\* C23 as amended: for all names a and b fuzzyScore(a, b) and
\* fuzzyScore(b, a) lie between 0 and 1 and are equal whenever one of the
\* lower-cased, trimmed names contains the other, and fuzzyScore(x, x) = 1
\* for non-empty x; the word-based score is a share of the first
\* argument's words and need not be symmetric.
C23_Similarity ==
    cmpResults # <<>> =>
        \A p \in ScoredPairs :
            /\ OneContainsOther(p[1], p[2]) => fuzzyScore(p[1], p[2]) = fuzzyScore(p[2], p[1])
            /\ InUnitInterval(fuzzyScore(p[1], p[2])) /\ InUnitInterval(fuzzyScore(p[2], p[1]))
            /\ fuzzyScore(p[1], p[1]) = <<1, 1>> /\ fuzzyScore(p[2], p[2]) = <<1, 1>>

\* 'General Ward 10' against 'Nursing Charges (General Ward)' scores 1 one
\* way and 1/2 the other; against 'General Ward' it scores 4/5 both ways
C23_Witness ==
    /\ cmpResults # <<>> /\ cmpCatalog = wardCatalog
    /\ <<Name_GeneralWard10, Name_NursingWard>> \in ScoredPairs
    /\ fuzzyScore(Name_GeneralWard10, Name_NursingWard) = <<1, 1>>
    /\ fuzzyScore(Name_NursingWard, Name_GeneralWard10) = <<1, 2>>
    /\ fuzzyScore(Name_GeneralWard10, Name_GeneralWard) = <<4, 5>>
    /\ fuzzyScore(Name_GeneralWard, Name_GeneralWard10) = <<4, 5>>

\* ------------------------------------------------------------------------
\* The confidence of validateMedicalBill
\* ------------------------------------------------------------------------
\* a line of the text holds a rupee amount or a number with two decimals
AmountPattern(text) == \E i \in DOMAIN text : RsAmount(text[i].text) \/ HasDecimals(text[i].text)

\* the confidence column of the decision table on m medical hits, n
\* non-medical hits and a non-medical score of w
ConfidenceTable(text, m, n, w) ==
    IF m = 0 /\ n = 0 THEN (IF AmountPattern(text) THEN 30 ELSE 10)
    ELSE IF m >= 3 /\ w <= 1 THEN Min(95, 50 + 5 * m)
    ELSE IF m >= 1 /\ n = 0 THEN Min(80, 40 + 10 * m)
    ELSE IF w > m THEN Min(90, 50 + 10 * w)
    ELSE 50

\* C24 as stated: the confidence is the decision table's value computed
\* from the raw counts m and n, and lies within 0 to 100.
C24_ConfidenceOnRawCounts ==
    valResult # <<>> =>
        /\ valResult[1].confidence =
              ConfidenceTable(valText, Hits(valText, VALIDATOR_MEDICAL_KEYWORDS),
                              Hits(valText, NON_MEDICAL_KEYWORDS),
                              Hits(valText, NON_MEDICAL_KEYWORDS))
        /\ valResult[1].confidence \in 0..100

\* C24 as amended: the confidence is the decision table's value computed
\* from m and the non-medical score 2n: 30 or 10 when both are 0 (with or
\* without an amount pattern), min(95, 50 + 5m) when m >= 3 and 2n <= 1,
\* min(80, 40 + 10m) when m >= 1 and n = 0, min(90, 50 + 20n) when 2n > m,
\* and 50 otherwise; it is always within 0 to 100.
C24_Confidence ==
    valResult # <<>> =>
        /\ valResult[1].confidence =
              ConfidenceTable(valText, Hits(valText, VALIDATOR_MEDICAL_KEYWORDS),
                              Hits(valText, NON_MEDICAL_KEYWORDS),
                              2 * Hits(valText, NON_MEDICAL_KEYWORDS))
        /\ valResult[1].confidence \in 0..100

\* three medical keywords and one non-medical keyword: the weighted score
\* 2 is neither at most 1 nor above 3, so the confidence is 50, not 65
C24_Witness ==
    /\ valResult # <<>>
    /\ Hits(valText, VALIDATOR_MEDICAL_KEYWORDS) = 3
    /\ Hits(valText, NON_MEDICAL_KEYWORDS) = 1
    /\ valResult[1].confidence = 50
    /\ valResult[1].isMedicalBill

\* ------------------------------------------------------------------------
\* What a request adds to the stored analyses
\* ------------------------------------------------------------------------
\* C28: the stored analyses change only through an authenticated request
\* that ends in a successful response; such a request adds exactly one
\* record, owned by the requesting user, and an anonymous request or one
\* that ends in an error adds nothing.
C28_StoredOnlyOnSuccess ==
    /\ (reqUser = <<>> \/ response = <<>>) => analyses = {}
    /\ (response # <<>> /\ response[1].status # 200) => analyses = {}
    /\ (reqUser # <<>> /\ response # <<>> /\ response[1].status = 200) =>
          \E a \in analyses : analyses = {a} /\ a.userId = reqUser[1]

\* C27: no two registered users share an email address, whatever the order
\* in which register requests arrive and resume from the await of the
\* password hash.
C27_UniqueEmails ==
    \A i, j \in DOMAIN users : users[i].email = users[j].email => i = j

HistoryRoutes == {"history", "history-item", "history-delete"}

\* a step in which a history route served a request
HistoryStep ==
    /\ << authRequest, authResponse >>' # << authRequest, authResponse >>
    /\ authRequest'[1].route \in HistoryRoutes

\* the user the session header of the request stands for owns the analysis id
OwnedBy(sid, id) ==
    \E a \in analyses : a.id = id /\ a.userId = RequestUser(sid).id

\* C29: a history request without a valid session, and a read or delete of
\* an analysis id that is not the requesting user's own, are answered with
\* an error and leave the stored analyses unchanged; the list returned to a
\* user holds only that user's records; and a record leaves the store only
\* through a delete by its owner.
C29_OwnAnalysesOnly ==
    [][HistoryStep =>
          LET req == authRequest'[1]
              resp == authResponse'[1]
          IN  /\ ~isAuthenticated(req.sid) =>
                    resp.status = 401 /\ analyses' = analyses
              /\ (/\ isAuthenticated(req.sid)
                  /\ req.route \in {"history-item", "history-delete"}
                  /\ ~OwnedBy(req.sid, req.id)) =>
                    resp.status = 404 /\ analyses' = analyses
              /\ (isAuthenticated(req.sid) /\ req.route = "history") =>
                    /\ resp.status = 200
                    /\ analyses' = analyses
                    /\ \A id \in resp.body : OwnedBy(req.sid, id)
              /\ \A a \in analyses \ analyses' :
                    /\ req.route = "history-delete"
                    /\ isAuthenticated(req.sid)
                    /\ a.id = req.id
                    /\ OwnedBy(req.sid, a.id)]_vars

\* the second user, with a valid session, asked to delete the analysis of
\* the first, got 404, and the analysis is still stored
C29_Witness ==
    /\ authRequest = Requested("history-delete", 4, 5)
    /\ isAuthenticated(4)
    /\ RequestUser(4).id = 3
    /\ \E a \in analyses : a.id = 5 /\ a.userId = 1
    /\ \E b \in analyses : b.userId = 3
    /\ authResponse[1].status = 404

\* a step in which the route served a request
RouteStep(route) ==
    /\ << authRequest, authResponse >>' # << authRequest, authResponse >>
    /\ authRequest'[1].route = route

\* C30: a session id is valid only from the successful register or login
\* that issued it, for the user of that request, until the logout that
\* names it: a session appears only with a 200 response of register or
\* login that carries it, under an id never handed out before; it
\* disappears only in a logout that names it, which leaves every other
\* session as it was; a register or login that answers an error issues no
\* session; and /api/auth/me answers a header as authenticated, and as that
\* user, exactly when the header is a session of the map.
C30_SessionLifetime ==
    [][/\ generated' >= generated
       /\ \A s \in sessions : s.sid <= generated
       /\ \A s \in sessions' \ sessions :
             /\ s.sid > generated
             /\ authRequest'[1].route \in {"register", "login"}
             /\ authResponse'[1].route = authRequest'[1].route
             /\ authResponse'[1].status = 200
             /\ authResponse'[1].sessionId = s.sid
             /\ authResponse'[1].userId = s.userId
             /\ \E i \in DOMAIN users' : users'[i].id = s.userId
             /\ sessions' = sessions \cup {s}
       /\ \A s \in sessions \ sessions' :
             /\ authRequest' = Requested("logout", s.sid, 0)
             /\ sessions' = sessions \ {s}
       /\ (RouteStep("register") \/ RouteStep("login")) =>
             (authResponse' # <<>> /\ authResponse'[1].status # 200 => sessions' = sessions)
       /\ RouteStep("me") =>
             LET sid == authRequest'[1].sid
             IN  IF \E s \in sessions : s.sid = sid
                 THEN /\ authResponse'[1].status = 200
                      /\ \A s \in sessions : s.sid = sid => authResponse'[1].userId = s.userId
                 ELSE authResponse'[1].status = 401]_vars

\* the user registered (session 2) and logged in again (session 3); session
\* 2 was logged out, and /api/auth/me still answers session 3 as the user
C30_Witness ==
    /\ authRequest = Requested("me", 3, 0)
    /\ authResponse[1].status = 200
    /\ authResponse[1].userId = 1
    /\ generated >= 3
    /\ sessions = {[sid |-> 3, userId |-> 1]}
====
